---- MODULE Spec2Model ----
(***************************************************************************)
(* Shift scheduling core: hard-constraint checks, candidate scoring,       *)
(* greedy assignment (utils/ilp_assignment.py) and the event-assignment    *)
(* store (models.py, models_simple.py, routes/events.py).                  *)
(*                                                                         *)
(* Time: a timestamp string is modelled by its parse outcome, a record     *)
(* [kind, t]: kind "iso" parses to instant t, counted in half hours from   *)
(* midnight of day 0; kind "bad" does not parse.  Durations and gaps are   *)
(* therefore in half hours: 1.0 h = 2, 12.0 h = 24, one calendar day = 48. *)
(***************************************************************************)
EXTENDS Integers, Sequences, FiniteSets, TLC

VARIABLES
    employees,            \* list of employee records passed to the optimizer
    all_events,           \* list of event records passed to the optimizer
    availabilities,       \* list of availability windows
    current_assignments,  \* dict employee id -> list of event ids
    shift,                \* the candidate shift of the call
    pc,                   \* which operation has acted last
    arg,                  \* the count or slot number it was called with
    ret,                  \* what it returned
    supabase,             \* whether a Supabase client is configured
    module,               \* the store module in use: "models" or "models_simple"
    events_table,         \* the events table, or _MEM_EVENTS without Supabase
    event_assignments,    \* rows of the event_assignments table
    shift_swaps           \* rows of the shift_swaps table

optimizer_vars == <<employees, all_events, availabilities, current_assignments, shift>>
store_vars == <<supabase, module, events_table, event_assignments, shift_swaps>>
vars == <<optimizer_vars, pc, arg, ret, store_vars>>

-----------------------------------------------------------------------------
(* Bounds and program constants *)

NumEvents == 2          \* length of all_events in the constraint scenarios
MaxWindows == 2         \* availability windows of the checked employee
NumEmployees == 3       \* employees in the ranking scenarios
NumUsers == 2           \* users of the store scenarios
MaxCapacity == 2        \* largest capacity an event is given

PerHour == 2            \* half hours per hour: total_seconds() / 3600
PerDay == 48            \* half hours per calendar day: strftime('%Y-%m-%d')
min_break_hours == 2    \* 1.0 h
max_hours_per_day == 24 \* 12.0 h
None == -1              \* Python's None, as returned by parse_datetime
max_daily_hours == 24   \* 12.0 h, the validator's default
MonthEndDay == 1        \* the day of the scenarios that is the last of its month

-----------------------------------------------------------------------------
(* Generic helpers *)

Range(s) == {s[i] : i \in DOMAIN s}

RECURSIVE SumSeq(_)
SumSeq(s) == IF s = <<>> THEN 0 ELSE Head(s) + SumSeq(Tail(s))

\* dict.get(key, [])
DictGet(d, k) == IF k \in DOMAIN d THEN d[k] ELSE <<>>

\* the first exception of a list of outcomes, "" if there is none
RECURSIVE FirstRaised(_)
FirstRaised(outcomes) ==
    IF outcomes = <<>> THEN ""
    ELSE IF Head(outcomes).raised # "" THEN Head(outcomes).raised
         ELSE FirstRaised(Tail(outcomes))

Iso(n) == [kind |-> "iso", t |-> n]
Bad == [kind |-> "bad", t |-> 0]
\* a stamp with a UTC offset ('Z' or '+00:00'): t is its instant in UTC
Aware(n) == [kind |-> "aware", t |-> n]

-----------------------------------------------------------------------------
(* utils/ilp_assignment.py: time helpers *)

parse_datetime(date_string) ==
    IF date_string.kind \in {"iso", "aware"} THEN date_string.t ELSE None

\* the datetime parsed from the stamp is offset-aware
tzinfo(date_string) == date_string.kind = "aware"

\* comparing or subtracting the datetimes of the two stamps raises TypeError:
\* one is offset-aware and the other offset-naive
TypeError(a, b) == tzinfo(a) # tzinfo(b)

get_shift_duration_hours(s) ==
    LET start == parse_datetime(s.start)
        end == parse_datetime(s.end)
    IN IF start # None /\ end # None /\ ~TypeError(s.end, s.start)
       THEN end - start
       ELSE 0

get_shift_date(s) ==
    LET start == parse_datetime(s.start)
    IN IF start # None THEN start \div PerDay ELSE None

\* mutant: shifts that only touch at an endpoint count as overlapping
shifts_overlap_touching(shift1, shift2) ==
    LET start1 == parse_datetime(shift1.start)
        end1 == parse_datetime(shift1.end)
        start2 == parse_datetime(shift2.start)
        end2 == parse_datetime(shift2.end)
    IN IF start1 = None \/ end1 = None \/ start2 = None \/ end2 = None
       THEN FALSE
       ELSE IF \/ TypeError(shift1.end, shift2.start)
               \/ ~(end1 < start2) /\ TypeError(shift2.end, shift1.start)
            THEN FALSE
            ELSE ~(end1 < start2 \/ end2 < start1)

shifts_overlap(shift1, shift2) ==
    LET start1 == parse_datetime(shift1.start)
        end1 == parse_datetime(shift1.end)
        start2 == parse_datetime(shift2.start)
        end2 == parse_datetime(shift2.end)
    IN IF start1 = None \/ end1 = None \/ start2 = None \/ end2 = None
       THEN FALSE
       ELSE IF \/ TypeError(shift1.end, shift2.start)
               \/ ~(end1 <= start2) /\ TypeError(shift2.end, shift1.start)
            THEN FALSE
            ELSE ~(end1 <= start2 \/ end2 <= start1)

-----------------------------------------------------------------------------
(* utils/ilp_assignment.py: hard constraints.  Each returns [ok, error].   *)

\* mutant: the shifts whose own assigned list names the employee count too
AssignedShiftsDiscovering(employee_id, cur, events) ==
    SelectSeq(events, LAMBDA e : \/ e.id \in Range(DictGet(cur, employee_id))
                                 \/ employee_id \in Range(e.assigned))

\* [e for e in all_events if e.get('id') in assigned_shift_ids]
AssignedShifts(employee_id, cur, events) ==
    SelectSeq(events, LAMBDA e : e.id \in Range(DictGet(cur, employee_id)))

check_no_overlap_constraint(employee_id, s, cur, events) ==
    LET assigned_shifts == AssignedShifts(employee_id, cur, events)
    IN IF \E i \in DOMAIN assigned_shifts : shifts_overlap(s, assigned_shifts[i])
       THEN [ok |-> FALSE, error |-> "Overlaps"]
       ELSE [ok |-> TRUE, error |-> ""]

\* One iteration of the loop of check_break_time_constraint: TRUE when the
\* iteration raises TypeError (the loop has no try/except): at
\* assigned_end <= shift_start, or else at shift_end <= assigned_start.
BreakRaises(s, assigned_shift) ==
    LET shift_start == parse_datetime(s.start)
        shift_end == parse_datetime(s.end)
        assigned_start == parse_datetime(assigned_shift.start)
        assigned_end == parse_datetime(assigned_shift.end)
    IN IF shift_start = None \/ shift_end = None
          \/ assigned_start = None \/ assigned_end = None
       THEN FALSE
       ELSE IF TypeError(assigned_shift.end, s.start)
            THEN TRUE
            ELSE IF assigned_end <= shift_start
                 THEN FALSE
                 ELSE TypeError(s.end, assigned_shift.start)

\* One iteration of the loop of check_break_time_constraint: TRUE when the
\* iteration returns False (the break is too short).
BreakTooShort(s, assigned_shift) ==
    LET shift_start == parse_datetime(s.start)
        shift_end == parse_datetime(s.end)
        assigned_start == parse_datetime(assigned_shift.start)
        assigned_end == parse_datetime(assigned_shift.end)
    IN IF shift_start = None \/ shift_end = None
          \/ assigned_start = None \/ assigned_end = None
          \/ BreakRaises(s, assigned_shift)
       THEN FALSE
       ELSE IF assigned_end <= shift_start
            THEN shift_start - assigned_end < min_break_hours
            ELSE IF shift_end <= assigned_start
                 THEN assigned_start - shift_end < min_break_hours
                 ELSE FALSE

\* the call raises TypeError: an iteration raises before any returns False
check_break_time_constraint_raises(employee_id, s, cur, events) ==
    LET assigned_shifts == AssignedShifts(employee_id, cur, events)
    IN \E i \in DOMAIN assigned_shifts :
          /\ BreakRaises(s, assigned_shifts[i])
          /\ \A j \in 1..(i - 1) : ~BreakTooShort(s, assigned_shifts[j])

\* the value returned when the call does not raise
check_break_time_constraint(employee_id, s, cur, events) ==
    LET assigned_shifts == AssignedShifts(employee_id, cur, events)
    IN IF \E i \in DOMAIN assigned_shifts : BreakTooShort(s, assigned_shifts[i])
       THEN [ok |-> FALSE, error |-> "Break"]
       ELSE [ok |-> TRUE, error |-> ""]

\* daily_hours of check_max_hours_per_day_constraint, in half hours
DailyHours(employee_id, s, cur, events) ==
    LET shift_date == get_shift_date(s)
        sameDay == SelectSeq(AssignedShifts(employee_id, cur, events),
                             LAMBDA e : get_shift_date(e) = shift_date)
    IN get_shift_duration_hours(s)
       + SumSeq([i \in DOMAIN sameDay |-> get_shift_duration_hours(sameDay[i])])

check_max_hours_per_day_constraint(employee_id, s, cur, events) ==
    IF get_shift_date(s) = None
    THEN [ok |-> TRUE, error |-> ""]
    ELSE IF DailyHours(employee_id, s, cur, events) > max_hours_per_day
         THEN [ok |-> FALSE, error |-> "MaxHours"]
         ELSE [ok |-> TRUE, error |-> ""]

\* [a for a in availabilities if a.get('user_id') == employee_id]
EmpAvailabilities(employee_id, avails) ==
    SelectSeq(avails, LAMBDA a : a.user_id = employee_id)

\* mutant: only the start of the shift has to lie inside the window
WindowCoversStart(avail, shift_start, shift_end) ==
    LET avail_start == parse_datetime(avail.start)
        avail_end == parse_datetime(avail.end)
    IN /\ avail_start # None
       /\ avail_end # None
       /\ avail_start <= shift_start
       /\ shift_start <= avail_end

\* the test of one window in the loop of check_availability_constraint
WindowCovers(avail, shift_start, shift_end) ==
    LET avail_start == parse_datetime(avail.start)
        avail_end == parse_datetime(avail.end)
    IN /\ avail_start # None
       /\ avail_end # None
       /\ avail_start <= shift_start
       /\ shift_end <= avail_end

\* the test of the window raises TypeError, which the loop's except swallows
WindowRaises(avail, s) ==
    LET avail_start == parse_datetime(avail.start)
        avail_end == parse_datetime(avail.end)
    IN /\ avail_start # None
       /\ avail_end # None
       /\ \/ TypeError(avail.start, s.start)
          \/ /\ avail_start <= parse_datetime(s.start)
             /\ TypeError(s.end, avail.end)

\* mutant: a shift whose times do not parse is not checked against the windows
check_availability_constraint_skipping(employee_id, s, avails) ==
    LET emp_availabilities == EmpAvailabilities(employee_id, avails)
        shift_start == parse_datetime(s.start)
        shift_end == parse_datetime(s.end)
    IN IF emp_availabilities = <<>>
       THEN [ok |-> FALSE, error |-> "NoWindow"]
       ELSE IF shift_start = None \/ shift_end = None
            THEN [ok |-> TRUE, error |-> ""]
            ELSE IF \E i \in DOMAIN emp_availabilities :
                       /\ ~WindowRaises(emp_availabilities[i], s)
                       /\ WindowCovers(emp_availabilities[i], shift_start, shift_end)
                 THEN [ok |-> TRUE, error |-> ""]
                 ELSE [ok |-> FALSE, error |-> "NotWithin"]

\* mutant: an employee without any window is treated as always available
check_availability_constraint_open(employee_id, s, avails) ==
    LET emp_availabilities == EmpAvailabilities(employee_id, avails)
        shift_start == parse_datetime(s.start)
        shift_end == parse_datetime(s.end)
    IN IF emp_availabilities = <<>>
       THEN [ok |-> TRUE, error |-> ""]
       ELSE IF shift_start = None \/ shift_end = None
            THEN [ok |-> FALSE, error |-> "InvalidTime"]
            ELSE IF \E i \in DOMAIN emp_availabilities :
                       /\ ~WindowRaises(emp_availabilities[i], s)
                       /\ WindowCovers(emp_availabilities[i], shift_start, shift_end)
                 THEN [ok |-> TRUE, error |-> ""]
                 ELSE [ok |-> FALSE, error |-> "NotWithin"]

check_availability_constraint(employee_id, s, avails) ==
    LET emp_availabilities == EmpAvailabilities(employee_id, avails)
        shift_start == parse_datetime(s.start)
        shift_end == parse_datetime(s.end)
    IN IF emp_availabilities = <<>>
       THEN [ok |-> FALSE, error |-> "NoWindow"]
       ELSE IF shift_start = None \/ shift_end = None
            THEN [ok |-> FALSE, error |-> "InvalidTime"]
            ELSE IF \E i \in DOMAIN emp_availabilities :
                       /\ ~WindowRaises(emp_availabilities[i], s)
                       /\ WindowCovers(emp_availabilities[i], shift_start, shift_end)
                 THEN [ok |-> TRUE, error |-> ""]
                 ELSE [ok |-> FALSE, error |-> "NotWithin"]

\* mutant: the checks stop at the first constraint that fails
check_all_hard_constraints_first(employee_id, s, cur, events, avails) ==
    LET r1 == check_no_overlap_constraint(employee_id, s, cur, events)
        r2 == check_break_time_constraint(employee_id, s, cur, events)
        r3 == check_max_hours_per_day_constraint(employee_id, s, cur, events)
        r4 == check_availability_constraint(employee_id, s, avails)
        errors == IF ~r1.ok THEN <<r1.error>>
                  ELSE IF ~r2.ok THEN <<r2.error>>
                  ELSE IF ~r3.ok THEN <<r3.error>>
                  ELSE IF ~r4.ok THEN <<r4.error>>
                  ELSE <<>>
    IN [ok |-> Len(errors) = 0, errors |-> errors]

check_all_hard_constraints(employee_id, s, cur, events, avails) ==
    LET r1 == check_no_overlap_constraint(employee_id, s, cur, events)
        r2 == check_break_time_constraint(employee_id, s, cur, events)
        r3 == check_max_hours_per_day_constraint(employee_id, s, cur, events)
        r4 == check_availability_constraint(employee_id, s, avails)
        errors == (IF r1.ok THEN <<>> ELSE <<r1.error>>)
                  \o (IF r2.ok THEN <<>> ELSE <<r2.error>>)
                  \o (IF r3.ok THEN <<>> ELSE <<r3.error>>)
                  \o (IF r4.ok THEN <<>> ELSE <<r4.error>>)
    IN [ok |-> Len(errors) = 0, errors |-> errors]

-----------------------------------------------------------------------------
(* Scores are exact fractions [num, den] with den > 0 (Python floats in    *)
(* the source).                                                            *)

RECURSIVE GCD(_, _)
GCD(a, b) == IF b = 0 THEN a ELSE GCD(b, a % b)

Abs(x) == IF x < 0 THEN -x ELSE x

Q(n, d) ==
    LET g == GCD(Abs(n), d)
    IN [num |-> n \div g, den |-> d \div g]

QLess(a, b) == a.num * b.den < b.num * a.den
QEq(a, b) == a.num * b.den = b.num * a.den
QAdd(a, b) == Q(a.num * b.den + b.num * a.den, a.den * b.den)
QMul(a, b) == Q(a.num * b.num, a.den * b.den)

\* round(x, 2) for x >= 0: the nearest hundredth, a tie going to the even one
Round2(x) ==
    LET lo == (100 * x.num) \div x.den
        twice == 2 * ((100 * x.num) % x.den)
        h == IF twice > x.den \/ (twice = x.den /\ lo % 2 = 1) THEN lo + 1 ELSE lo
    IN Q(h, 100)

-----------------------------------------------------------------------------
(* utils/ilp_assignment.py: soft constraints (scoring) *)

weight_fairness == 45       \* 0.45
weight_availability == 35   \* 0.35
weight_reliability == 20    \* 0.20

\* total hours (in half hours) of the shifts of events whose id is in shift_ids
TotalHours(shift_ids, events) ==
    LET mine == SelectSeq(events, LAMBDA e : e.id \in Range(shift_ids))
    IN SumSeq([i \in DOMAIN mine |-> get_shift_duration_hours(mine[i])])

RECURSIVE SumOver(_, _)
SumOver(f, S) ==
    IF S = {} THEN 0
    ELSE LET x == CHOOSE y \in S : TRUE IN f[x] + SumOver(f, S \ {x})

calculate_fairness_score(employee_id, cur, events) ==
    LET employee_hours == [e \in DOMAIN cur |-> TotalHours(cur[e], events)]
        n == Cardinality(DOMAIN cur)
        total == SumOver(employee_hours, DOMAIN cur)
        emp_hours == IF employee_id \in DOMAIN cur THEN employee_hours[employee_id] ELSE 0
    IN IF DOMAIN cur = {}
       THEN Q(1, 2)
       ELSE IF total > 0   \* avg_hours = total / n > 0
            THEN \* 1.0 - emp_hours / avg_hours = (total - emp_hours * n) / total
                 IF total - emp_hours * n > 0
                 THEN Q(total - emp_hours * n, total)
                 ELSE Q(0, 1)
            ELSE Q(1, 1)

calculate_availability_match_score(employee_id, s, avails) ==
    LET emp_availabilities == EmpAvailabilities(employee_id, avails)
        shift_start == parse_datetime(s.start)
    IN IF emp_availabilities = <<>>
       THEN Q(1, 2)
       ELSE IF shift_start = None
            THEN Q(1, 2)
            ELSE IF \E i \in DOMAIN emp_availabilities :
                       LET avail_start == parse_datetime(emp_availabilities[i].start)
                           avail_end == parse_datetime(emp_availabilities[i].end)
                       IN /\ avail_start # None
                          /\ avail_end # None
                          /\ ~TypeError(emp_availabilities[i].start, s.start)
                          /\ avail_start <= shift_start
                          /\ ~TypeError(s.start, emp_availabilities[i].end)
                          /\ shift_start <= avail_end
                 THEN Q(1, 1)
                 ELSE Q(3, 10)

calculate_reliability_score(employee_id, users) == Q(8, 10)

calculate_assignment_score(employee_id, s, cur, events, avails, users) ==
    LET fairness == calculate_fairness_score(employee_id, cur, events)
        availability == calculate_availability_match_score(employee_id, s, avails)
        reliability == calculate_reliability_score(employee_id, users)
    IN QAdd(QAdd(QMul(fairness, Q(weight_fairness, 100)),
                 QMul(availability, Q(weight_availability, 100))),
            QMul(reliability, Q(weight_reliability, 100)))

-----------------------------------------------------------------------------
(* utils/ilp_assignment.py: suggest_assignments and auto_assign_shift *)

\* the candidate record built for one eligible employee (username left out)
Candidate(emp_id, s, cur, events, avails, users) ==
    LET fairness == calculate_fairness_score(emp_id, cur, events)
        availability == calculate_availability_match_score(emp_id, s, avails)
        reliability == calculate_reliability_score(emp_id, users)
        reasons == (IF QLess(Q(7, 10), fairness) THEN <<"fewer hours">> ELSE <<>>)
                   \o (IF QLess(Q(9, 10), availability) THEN <<"preferred window">> ELSE <<>>)
                   \o (IF QLess(Q(85, 100), reliability) THEN <<"good attendance">> ELSE <<>>)
    IN [employee_id |-> emp_id,
        score |-> calculate_assignment_score(emp_id, s, cur, events, avails, users),
        breakdown |-> [fairness |-> Round2(fairness),
                       availability |-> Round2(availability),
                       reliability |-> Round2(reliability)],
        reasons |-> IF reasons = <<>> THEN <<"meets all requirements">> ELSE reasons]

\* mutant: the hard-constraint check is skipped, violators stay in the list
RECURSIVE CandidatesUnfiltered(_, _, _, _, _, _)
CandidatesUnfiltered(emps, s, cur, events, avails, users) ==
    IF emps = <<>> THEN <<>>
    ELSE <<Candidate(Head(emps).id, s, cur, events, avails, users)>>
         \o CandidatesUnfiltered(Tail(emps), s, cur, events, avails, users)

\* the loop over valid_employees: the candidates, in the order of the input list
RECURSIVE Candidates(_, _, _, _, _, _)
Candidates(emps, s, cur, events, avails, users) ==
    IF emps = <<>> THEN <<>>
    ELSE LET emp_id == Head(emps).id
             rest == Candidates(Tail(emps), s, cur, events, avails, users)
         IN IF check_all_hard_constraints(emp_id, s, cur, events, avails).ok
            THEN <<Candidate(emp_id, s, cur, events, avails, users)>> \o rest
            ELSE rest

\* mutant: c goes in front of the elements of equal score (ties reversed)
RECURSIVE InsertByScoreUnstable(_, _)
InsertByScoreUnstable(sorted, c) ==
    IF sorted = <<>> THEN <<c>>
    ELSE IF ~QLess(c.score, Head(sorted).score)
         THEN <<c>> \o sorted
         ELSE <<Head(sorted)>> \o InsertByScoreUnstable(Tail(sorted), c)

\* list.sort is stable, also with reverse=True: c goes behind every element
\* whose score is not lower
RECURSIVE InsertByScore(_, _)
InsertByScore(sorted, c) ==
    IF sorted = <<>> THEN <<c>>
    ELSE IF QLess(Head(sorted).score, c.score)
         THEN <<c>> \o sorted
         ELSE <<Head(sorted)>> \o InsertByScore(Tail(sorted), c)

\* candidates.sort(key=lambda x: x['score'], reverse=True)
RECURSIVE SortByScore(_)
SortByScore(cands) ==
    IF cands = <<>> THEN <<>>
    ELSE InsertByScore(SortByScore(SubSeq(cands, 1, Len(cands) - 1)), cands[Len(cands)])

\* seq[:count]
Slice(seq, count) ==
    IF count >= 0
    THEN SubSeq(seq, 1, IF count < Len(seq) THEN count ELSE Len(seq))
    ELSE SubSeq(seq, 1, IF Len(seq) + count > 0 THEN Len(seq) + count ELSE 0)

suggest_assignments(s, emps, events, avails, cur, count) ==
    LET valid_employees == SelectSeq(emps, LAMBDA e : e.id # None)
    IN IF emps = <<>> \/ valid_employees = <<>>
       THEN <<>>
       ELSE Slice(SortByScore(Candidates(valid_employees, s, cur, events, avails, emps)),
                  count)

\* the call raises: check_all_hard_constraints, called for every valid
\* employee outside any try, passes on check_break_time_constraint's TypeError
suggest_assignments_raises(s, emps, events, avails, cur) ==
    \E i \in DOMAIN emps :
       /\ emps[i].id # None
       /\ check_break_time_constraint_raises(emps[i].id, s, cur, events)

\* mutant: the loop stops one pick late (> in place of >=)
RECURSIVE AssignLoopLate(_, _, _, _, _, _)
AssignLoopLate(suggestions, assigned, cur, shift_id, employee_ids_set, capacity_to_fill) ==
    IF suggestions = <<>> \/ Len(assigned) > capacity_to_fill
    THEN [assigned |-> assigned, cur |-> cur]
    ELSE LET emp_id == Head(suggestions).employee_id
         IN AssignLoopLate(Tail(suggestions),
                           Append(assigned, emp_id),
                           [e \in DOMAIN cur \cup {emp_id} |->
                               IF e = emp_id
                               THEN Append(DictGet(cur, emp_id), shift_id)
                               ELSE cur[e]],
                           shift_id, employee_ids_set, capacity_to_fill)

\* the loop of auto_assign_shift over the suggestions: [assigned, cur]
RECURSIVE AssignLoop(_, _, _, _, _, _)
AssignLoop(suggestions, assigned, cur, shift_id, employee_ids_set, capacity_to_fill) ==
    IF suggestions = <<>> \/ Len(assigned) >= capacity_to_fill
    THEN [assigned |-> assigned, cur |-> cur]
    ELSE LET emp_id == Head(suggestions).employee_id
         IN IF emp_id \notin employee_ids_set
            THEN AssignLoop(Tail(suggestions), assigned, cur, shift_id,
                            employee_ids_set, capacity_to_fill)
            ELSE AssignLoop(Tail(suggestions),
                            Append(assigned, emp_id),
                            [e \in DOMAIN cur \cup {emp_id} |->
                                IF e = emp_id
                                THEN Append(DictGet(cur, emp_id), shift_id)
                                ELSE cur[e]],
                            shift_id, employee_ids_set, capacity_to_fill)

\* mutant: the picks go into a copy, the caller's dict is left as passed in
auto_assign_shift_copying(s, emps, events, avails, cur, capacity_to_fill) ==
    LET to_fill == IF capacity_to_fill = None THEN s.capacity ELSE capacity_to_fill
        suggestions == suggest_assignments(s, emps, events, avails, cur, Len(emps))
        employee_ids_set == {emps[i].id : i \in DOMAIN emps} \ {None}
        done == AssignLoop(suggestions, <<>>, cur, s.id, employee_ids_set, to_fill)
    IN [assigned |-> done.assigned,
        errors |-> IF Len(done.assigned) < to_fill
                   THEN <<[msg |-> "Could not fill slots",
                           slots_unfilled |-> to_fill - Len(done.assigned)]>>
                   ELSE <<>>,
        cur |-> cur]

\* mutant: the candidates are ranked again before every pick
RECURSIVE auto_assign_shift_reranking(_, _, _, _, _, _)
auto_assign_shift_reranking(s, emps, events, avails, cur, capacity_to_fill) ==
    LET to_fill == IF capacity_to_fill = None THEN s.capacity ELSE capacity_to_fill
        suggestions == suggest_assignments(s, emps, events, avails, cur, 1)
    IN IF to_fill <= 0
       THEN [assigned |-> <<>>, errors |-> <<>>, cur |-> cur]
       ELSE IF suggestions = <<>>
            THEN [assigned |-> <<>>,
                  errors |-> <<[msg |-> "Could not fill slots",
                                slots_unfilled |-> to_fill]>>,
                  cur |-> cur]
            ELSE LET emp_id == suggestions[1].employee_id
                     rest == auto_assign_shift_reranking(
                                s, emps, events, avails,
                                [e \in DOMAIN cur \cup {emp_id} |->
                                    IF e = emp_id
                                    THEN Append(DictGet(cur, emp_id), s.id)
                                    ELSE cur[e]],
                                to_fill - 1)
                 IN [assigned |-> <<emp_id>> \o rest.assigned,
                     errors |-> rest.errors,
                     cur |-> rest.cur]

\* the call raises: suggest_assignments is called outside any try
auto_assign_shift_raises(s, emps, events, avails, cur) ==
    suggest_assignments_raises(s, emps, events, avails, cur)

\* returns [assigned, errors] and cur, the caller's current_assignments dict
\* as the call leaves it
auto_assign_shift(s, emps, events, avails, cur, capacity_to_fill) ==
    LET to_fill == IF capacity_to_fill = None THEN s.capacity ELSE capacity_to_fill
        suggestions == suggest_assignments(s, emps, events, avails, cur, Len(emps))
        employee_ids_set == {emps[i].id : i \in DOMAIN emps} \ {None}
        done == AssignLoop(suggestions, <<>>, cur, s.id, employee_ids_set, to_fill)
    IN [assigned |-> done.assigned,
        errors |-> IF Len(done.assigned) < to_fill
                   THEN <<[msg |-> "Could not fill slots",
                           slots_unfilled |-> to_fill - Len(done.assigned)]>>
                   ELSE <<>>,
        cur |-> done.cur]

-----------------------------------------------------------------------------
(* utils/ilp_assignment.py: generate_full_schedule *)

\* the order of the 'start' strings: stamps of one ISO format compare as
\* their instants; the unparseable stamp of the scenarios is the empty
\* string, below every other
StartString(s) == IF s.start.kind = "bad" THEN -1 ELSE s.start.t

\* (capacity, start) of a below that of b, as tuples compare; of two start
\* strings of one instant the one without the offset suffix is a prefix of
\* the other and so below it
SortKeyLess(a, b) ==
    \/ a.capacity < b.capacity
    \/ /\ a.capacity = b.capacity
       /\ \/ StartString(a) < StartString(b)
          \/ /\ StartString(a) = StartString(b)
             /\ ~tzinfo(a.start)
             /\ tzinfo(b.start)

\* mutant: easiest first (reverse=True left out)
SortShiftsAscending(shifts) ==
    LET rank(i) ==
            Cardinality({j \in DOMAIN shifts : SortKeyLess(shifts[j], shifts[i])})
            + Cardinality({j \in DOMAIN shifts :
                              /\ j < i
                              /\ ~SortKeyLess(shifts[i], shifts[j])
                              /\ ~SortKeyLess(shifts[j], shifts[i])})
            + 1
    IN [r \in DOMAIN shifts |-> shifts[CHOOSE i \in DOMAIN shifts : rank(i) = r]]

\* sorted(shifts, key=(capacity, start), reverse=True): a shift stands behind
\* every shift of a higher key and behind the earlier ones of its own key
SortShifts(shifts) ==
    LET rank(i) ==
            Cardinality({j \in DOMAIN shifts : SortKeyLess(shifts[i], shifts[j])})
            + Cardinality({j \in DOMAIN shifts :
                              /\ j < i
                              /\ ~SortKeyLess(shifts[i], shifts[j])
                              /\ ~SortKeyLess(shifts[j], shifts[i])})
            + 1
    IN [r \in DOMAIN shifts |-> shifts[CHOOSE i \in DOMAIN shifts : rank(i) = r]]

\* the loop over shifts_sorted: runs is the list of [shift_id, assigned,
\* capacity] in the order of the runs, cur the dict the runs share; raised
\* when a run's auto_assign_shift raised, which ends the loop
\* mutant: every run starts from an empty assignment state
RECURSIVE ScheduleLoopFresh(_, _, _, _, _, _)
ScheduleLoopFresh(todo, emps, events, avails, cur, runs) ==
    IF todo = <<>>
    THEN [runs |-> runs, cur |-> cur, raised |-> FALSE]
    ELSE LET s == Head(todo)
         IN CHOOSE out \in
               {ScheduleLoopFresh(Tail(todo), emps, events, avails, <<>>,
                                  Append(runs, [shift_id |-> s.id,
                                                assigned |-> r.assigned,
                                                capacity |-> s.capacity])) :
                  r \in {auto_assign_shift(s, emps, events, avails, <<>>,
                                           s.capacity)}} : TRUE

RECURSIVE ScheduleLoop(_, _, _, _, _, _)
ScheduleLoop(todo, emps, events, avails, cur, runs) ==
    IF todo = <<>>
    THEN [runs |-> runs, cur |-> cur, raised |-> FALSE]
    ELSE LET s == Head(todo)
         IN IF auto_assign_shift_raises(s, emps, events, avails, cur)
            THEN [runs |-> runs, cur |-> cur, raised |-> TRUE]
            ELSE CHOOSE out \in
                    {ScheduleLoop(Tail(todo), emps, events, avails, r.cur,
                                  Append(runs, [shift_id |-> s.id,
                                                assigned |-> r.assigned,
                                                capacity |-> s.capacity])) :
                       r \in {auto_assign_shift(s, emps, events, avails, cur,
                                                s.capacity)}} : TRUE

\* the call raises: auto_assign_shift is called outside any try
generate_full_schedule_raises(shifts, emps, avails) ==
    \E shifts_sorted \in {SortShifts(shifts)} :
       ScheduleLoop(shifts_sorted, emps, shifts, avails, <<>>, <<>>).raised

\* 'fairness_score' of the stats in hundredths (100 stands for 1.0):
\* round(max(0.0, 1.0 - std_dev / avg_hours), 2) over the hours of the
\* entries of current_assignments.  With p / q = variance / avg_hours^2 the
\* rounded score is the largest k with 1 - sqrt(p / q) >= (2k - 1) / 200,
\* that is 40000 p <= q (201 - 2k)^2 (hours are multiples of half an hour,
\* and no total of less than 100 hours puts the score on a tie).
fairness_score(cur, events) ==
    LET hours == [e \in DOMAIN cur |-> TotalHours(cur[e], events)]
        n == Cardinality(DOMAIN cur)
        total == SumOver(hours, DOMAIN cur)
        squares == SumOver([e \in DOMAIN cur |-> hours[e] * hours[e]], DOMAIN cur)
        p == n * squares - total * total
        q == total * total
        fits == {k \in 0..100 : 40000 * p <= q * (201 - 2 * k) * (201 - 2 * k)}
    IN IF DOMAIN cur = {} \/ total <= 0
       THEN 100
       ELSE IF fits = {} THEN 0 ELSE CHOOSE k \in fits : \A j \in fits : j <= k

\* the return value built from the runs and the assignment state they
\* leave: assignments and coverage are dicts in the order of the runs, given
\* here with the list of runs; of stats the staffing counts and the fairness
ScheduleResult(runs, cur, shifts) ==
    LET ids == {runs[i].shift_id : i \in DOMAIN runs}
        last(id) == runs[CHOOSE i \in DOMAIN runs :
                            /\ runs[i].shift_id = id
                            /\ \A j \in DOMAIN runs : runs[j].shift_id = id => j <= i]
    IN [runs |-> runs,
        assignments |-> [id \in ids |-> last(id).assigned],
        coverage |-> [id \in ids |-> [filled |-> Len(last(id).assigned),
                                      capacity |-> last(id).capacity]],
        stats |-> [total_shifts |-> Len(shifts),
                   fairness_score |-> fairness_score(cur, shifts),
                   fully_staffed |-> Cardinality({id \in ids :
                                         Len(last(id).assigned) = last(id).capacity}),
                   understaffed |-> Cardinality({id \in ids :
                                        Len(last(id).assigned) < last(id).capacity})]]

generate_full_schedule(shifts, emps, avails) ==
    CHOOSE out \in
       {ScheduleResult(all.runs, all.cur, shifts) :
          all \in {ScheduleLoop(shifts_sorted, emps, shifts, avails, <<>>, <<>>) :
                     shifts_sorted \in {SortShifts(shifts)}}} : TRUE

-----------------------------------------------------------------------------
(* models.py: the manager-path availability check.  avails stands for the  *)
(* availability table read by get_availability_for_user.                   *)

is_employee_available(user_id, event_start, event_end, avails) ==
    LET event_start_dt == parse_datetime(event_start)
        event_end_dt == parse_datetime(event_end)
        user_avails == SelectSeq(avails, LAMBDA a : a.user_id = user_id)
    IN IF event_start_dt = None \/ event_end_dt = None
       THEN FALSE
       ELSE IF user_avails = <<>>
            THEN FALSE
            ELSE \E i \in DOMAIN user_avails :
                    LET avail_start == parse_datetime(user_avails[i].start)
                        avail_end == parse_datetime(user_avails[i].end)
                    IN /\ avail_start # None
                       /\ avail_end # None
                       /\ ~TypeError(user_avails[i].start, event_start)
                       /\ avail_start <= event_start_dt
                       /\ ~TypeError(user_avails[i].end, event_end)
                       /\ avail_end >= event_end_dt

-----------------------------------------------------------------------------
(* Input records of the constraint scenarios *)

\* Shift time shapes (half hours from midnight of day 0):
\*  1  09:00-14:00          2  14:30-16:30 (0.5 h after 1)
\*  3  15:00-22:00 (1 h after 1, 12 h together with 1)
\*  4  14:00-21:30 (touches 1, 12.5 h together with 1)
\*  5  next day 09:00-14:00
\*  6  22:00-03:00 entered on one date (end before start; 0.5 h after 4)
\*  7  unparseable start
ShiftShapes ==
    << [start |-> Iso(18), end |-> Iso(28)],
       [start |-> Iso(29), end |-> Iso(33)],
       [start |-> Iso(30), end |-> Iso(44)],
       [start |-> Iso(28), end |-> Iso(43)],
       [start |-> Iso(66), end |-> Iso(76)],
       [start |-> Iso(44), end |-> Iso(6)],
       [start |-> Bad, end |-> Iso(28)] >>

\* Availability window shapes:
\*  1  09:00-15:00   2  15:00-22:00   3  day 0 00:00 - day 2 00:00
\*  4  unparseable start
WindowShapes ==
    << [start |-> Iso(18), end |-> Iso(30)],
       [start |-> Iso(30), end |-> Iso(44)],
       [start |-> Iso(0), end |-> Iso(96)],
       [start |-> Bad, end |-> Iso(96)] >>

MkEvent(i, shape, cap) ==
    [id |-> i, start |-> shape.start, end |-> shape.end, capacity |-> cap]

MkWindow(u, shape) ==
    [user_id |-> u, start |-> shape.start, end |-> shape.end]

RECURSIVE SetToSeq(_)
SetToSeq(S) ==
    IF S = {} THEN <<>>
    ELSE LET m == CHOOSE x \in S : \A y \in S : x <= y
         IN <<m>> \o SetToSeq(S \ {m})

\* the employee whose constraints are checked, and a colleague
Emp == 1
Colleague == 2

-----------------------------------------------------------------------------
(* Spec: the hard-constraint checks applied to one employee and one shift. *)
(* The events are as list_events returns them: each carries its own        *)
(* assigned list, which names the employee, whatever the assignment state  *)
(* passed to the check lists for them.                                     *)

\* the shift shapes, and 08:00-21:30, a shift of 13.5 h
ConstraintShapes == ShiftShapes \o <<[start |-> Iso(16), end |-> Iso(43)]>>

Init ==
    /\ \E f \in [1..NumEvents -> 1..Len(ConstraintShapes)] :
          all_events = [i \in 1..NumEvents |->
                           [id |-> i,
                            start |-> ConstraintShapes[f[i]].start,
                            end |-> ConstraintShapes[f[i]].end,
                            capacity |-> 1,
                            assigned |-> <<Emp>>]]
    /\ shift = all_events[1]
    /\ employees = <<[id |-> Emp], [id |-> Colleague]>>
    /\ \E ws \in {w \in SUBSET (1..Len(WindowShapes)) : Cardinality(w) <= MaxWindows} :
          availabilities =
              [i \in 1..Cardinality(ws) |-> MkWindow(Emp, WindowShapes[SetToSeq(ws)[i]])]
              \o <<MkWindow(Colleague, WindowShapes[3])>>
    /\ \E present \in BOOLEAN, ids \in SUBSET (1..NumEvents) :
          /\ (~present => ids = {})
          /\ current_assignments =
                IF present
                THEN (Emp :> SetToSeq(ids)) @@ (Colleague :> SetToSeq(1..NumEvents))
                ELSE (Colleague :> SetToSeq(1..NumEvents))
    /\ pc = "init"
    /\ arg = None
    /\ ret = [ok |-> FALSE, errors |-> <<>>]
    /\ supabase = FALSE
    /\ module = "models"
    /\ events_table = <<>>
    /\ event_assignments = {}
    /\ shift_swaps = <<>>

\* a caller runs check_all_hard_constraints for the employee
CheckAllHardConstraints ==
    /\ pc = "init"
    /\ pc' = "check_all_hard_constraints"
    /\ ret' = check_all_hard_constraints(Emp, shift, current_assignments,
                                         all_events, availabilities)
    /\ UNCHANGED <<optimizer_vars, arg, store_vars>>

\* a route runs is_employee_available for the employee (check_assignment_validity)
IsEmployeeAvailable ==
    /\ pc = "init"
    /\ pc' = "is_employee_available"
    /\ ret' = [ok |-> is_employee_available(Emp, shift.start, shift.end, availabilities),
               errors |-> <<>>]
    /\ UNCHANGED <<optimizer_vars, arg, store_vars>>

Next ==
    \/ CheckAllHardConstraints
    \/ IsEmployeeAvailable

Spec == Init /\ [][Next]_vars

-----------------------------------------------------------------------------
(* SpecRank: scoring, suggest_assignments and auto_assign_shift for one     *)
(* candidate shift and NumEmployees employees                               *)

\* the events of the ranking scenarios:
\*  1  the candidate shift, day 0 09:00-14:00
\*  2  day 1 09:00-14:00 (5 h)      3  day 2 09:00-11:00 (2 h)
\*  4  day 0 14:30-16:30 (0.5 h after the candidate)
\*  5  day 0 22:00-03:00, end before start
RankEvents ==
    << MkEvent(1, ShiftShapes[1], 1),
       MkEvent(2, ShiftShapes[5], 1),
       MkEvent(3, [start |-> Iso(114), end |-> Iso(118)], 1),
       MkEvent(4, ShiftShapes[2], 1),
       MkEvent(5, ShiftShapes[6], 1) >>

\* what one employee brings into a call: whether current_assignments has an
\* entry, the entry, and whether an availability window was submitted
Profiles ==
    << [present |-> TRUE, listed |-> <<2>>, window |-> TRUE],
       [present |-> TRUE, listed |-> <<2, 3>>, window |-> TRUE],
       [present |-> TRUE, listed |-> <<>>, window |-> TRUE],
       [present |-> FALSE, listed |-> <<>>, window |-> TRUE],
       [present |-> TRUE, listed |-> <<2>>, window |-> FALSE],
       [present |-> TRUE, listed |-> <<4>>, window |-> TRUE],
       [present |-> TRUE, listed |-> <<5>>, window |-> TRUE] >>

EmployeeIds == 1..NumEmployees

\* Employee ids are opaque to the optimizer, so the profiles are dealt in
\* non-decreasing order of id; the employees list comes in every order.
InitRank ==
    /\ \E prof \in [EmployeeIds -> 1..Len(Profiles)] :
          /\ \A e \in EmployeeIds : e + 1 \in EmployeeIds => prof[e] <= prof[e + 1]
          /\ current_assignments =
                [e \in {x \in EmployeeIds : Profiles[prof[x]].present} |->
                    Profiles[prof[e]].listed]
          /\ availabilities =
                LET with == SetToSeq({x \in EmployeeIds : Profiles[prof[x]].window})
                IN [i \in DOMAIN with |-> MkWindow(with[i], WindowShapes[3])]
    /\ \E order \in [EmployeeIds -> EmployeeIds] :
          /\ \A i, j \in EmployeeIds : order[i] = order[j] => i = j
          /\ employees = [i \in EmployeeIds |-> [id |-> order[i]]]
    /\ all_events = RankEvents
    /\ shift = RankEvents[1]
    /\ pc = "init"
    /\ arg = None
    /\ ret = <<>>
    /\ supabase = FALSE
    /\ module = "models"
    /\ events_table = <<>>
    /\ event_assignments = {}
    /\ shift_swaps = <<>>

\* a caller scores the fairness of every employee in the assignment state
CalculateFairnessScore ==
    /\ pc = "init"
    /\ pc' = "calculate_fairness_score"
    /\ ret' = [e \in EmployeeIds |->
                  calculate_fairness_score(e, current_assignments, all_events)]
    /\ UNCHANGED <<optimizer_vars, arg, store_vars>>

\* mutant: the call also commits its first pick into current_assignments
SuggestAssignmentsCommitting ==
    /\ pc = "init"
    /\ \E count \in 0..NumEmployees :
          \E r \in {suggest_assignments(shift, employees, all_events, availabilities,
                                        current_assignments, count)} :
             /\ arg' = count
             /\ ret' = r
             /\ current_assignments' =
                   IF r = <<>>
                   THEN current_assignments
                   ELSE [e \in DOMAIN current_assignments \cup {r[1].employee_id} |->
                            IF e = r[1].employee_id
                            THEN Append(DictGet(current_assignments, e), shift.id)
                            ELSE current_assignments[e]]
    /\ pc' = "suggest_assignments"
    /\ UNCHANGED <<employees, all_events, availabilities, shift, store_vars>>

SuggestAssignments ==
    /\ pc = "init"
    /\ \E count \in 0..NumEmployees :
          /\ arg' = count
          /\ ret' = suggest_assignments(shift, employees, all_events, availabilities,
                                        current_assignments, count)
    /\ pc' = "suggest_assignments"
    /\ UNCHANGED <<optimizer_vars, store_vars>>

\* the caller repeats the call with the inputs as the first call left them
SuggestAssignmentsAgain ==
    /\ pc = "suggest_assignments"
    /\ ret' = [first |-> ret,
               second |-> suggest_assignments(shift, employees, all_events,
                                              availabilities, current_assignments, arg)]
    /\ pc' = "suggest_assignments_again"
    /\ UNCHANGED <<optimizer_vars, arg, store_vars>>

\* capacity_to_fill = None stands for the default, the capacity of the shift
AutoAssignShift ==
    /\ pc = "init"
    /\ \E capacity_to_fill \in {None} \cup 0..NumEmployees :
          \E r \in {auto_assign_shift(shift, employees, all_events, availabilities,
                                     current_assignments, capacity_to_fill)} :
             /\ arg' = capacity_to_fill
             /\ ret' = [assigned |-> r.assigned, errors |-> r.errors]
             /\ current_assignments' = r.cur
    /\ pc' = "auto_assign_shift"
    /\ UNCHANGED <<employees, all_events, availabilities, shift, store_vars>>

NextRank ==
    \/ CalculateFairnessScore
    \/ SuggestAssignments
    \/ SuggestAssignmentsAgain
    \/ AutoAssignShift

SpecRank == InitRank /\ [][NextRank]_vars

-----------------------------------------------------------------------------
(* SpecSchedule: generate_full_schedule over NumEvents shifts of the shapes *)
(* and capacity 0..MaxCapacity, for NumUsers employees: the first is        *)
(* available all along, the others from 09:00 to 15:00 only                 *)

\* Shift time shapes of the schedule scenarios:
\*  1  09:00-14:00          2  14:00-21:30 (touches 1)
\*  3  13:00-16:30 (overlaps 1 and 2)
\*  4  15:00-22:00 with a UTC offset ('Z')
\*  5  no start (the key is missing)
\*  6  15:00-22:00 (1 h after 1, 12 h together with 1)
\*  7  15:00-22:30 (1 h after 1, 12.5 h together with 1)
ScheduleShapes ==
    << [start |-> Iso(18), end |-> Iso(28)],
       [start |-> Iso(28), end |-> Iso(43)],
       [start |-> Iso(26), end |-> Iso(33)],
       [start |-> Aware(30), end |-> Aware(44)],
       [start |-> Bad, end |-> Iso(28)],
       [start |-> Iso(30), end |-> Iso(44)],
       [start |-> Iso(30), end |-> Iso(45)] >>

InitSchedule ==
    /\ \E f \in [1..NumEvents -> 1..Len(ScheduleShapes)],
          caps \in [1..NumEvents -> 0..MaxCapacity] :
          all_events = [i \in 1..NumEvents |-> MkEvent(i, ScheduleShapes[f[i]], caps[i])]
    /\ employees = [i \in 1..NumUsers |-> [id |-> i]]
    /\ availabilities = [i \in 1..NumUsers |->
                             MkWindow(i, WindowShapes[IF i = 1 THEN 3 ELSE 1])]
    /\ current_assignments = <<>>
    /\ shift = None
    /\ pc = "init"
    /\ arg = None
    /\ ret = <<>>
    /\ supabase = FALSE
    /\ module = "models"
    /\ events_table = <<>>
    /\ event_assignments = {}
    /\ shift_swaps = <<>>

GenerateFullSchedule ==
    /\ pc = "init"
    /\ IF generate_full_schedule_raises(all_events, employees, availabilities)
       THEN /\ pc' = "TypeError"
            /\ ret' = <<>>
       ELSE /\ pc' = "generate_full_schedule"
            /\ ret' = generate_full_schedule(all_events, employees, availabilities)
    /\ UNCHANGED <<optimizer_vars, arg, store_vars>>

NextSchedule == GenerateFullSchedule

SpecSchedule == InitSchedule /\ [][NextSchedule]_vars

-----------------------------------------------------------------------------
(* SpecScore: the three scores and their weighted sum for one employee of  *)
(* NumEmployees, for the candidate shift ScoreEvents[1]                    *)

\*  1  the candidate, day 0 09:00-14:00     2  day 1 09:00-14:00 (5 h)
\*  3  day 2 08:00-20:00 (12 h)
\*  4  day 0 22:00-03:00, entered on one date (end before start)
ScoreEvents ==
    << MkEvent(1, ShiftShapes[1], 1),
       MkEvent(2, ShiftShapes[5], 1),
       MkEvent(3, [start |-> Iso(112), end |-> Iso(136)], 1),
       MkEvent(4, ShiftShapes[6], 1) >>

\* what one employee brings into a call: whether current_assignments has an
\* entry, the entry, and the availability windows submitted (WindowShapes)
ScoreProfiles ==
    << [present |-> FALSE, listed |-> <<>>, windows |-> <<>>],
       [present |-> TRUE, listed |-> <<2>>, windows |-> <<3>>],
       [present |-> TRUE, listed |-> <<2, 3>>, windows |-> <<2>>],
       [present |-> TRUE, listed |-> <<4>>, windows |-> <<3>>] >>

\* the windows of the employees 1..n, employee by employee
RECURSIVE ScoreWindows(_, _)
ScoreWindows(prof, n) ==
    IF n = 0 THEN <<>>
    ELSE ScoreWindows(prof, n - 1)
         \o [k \in DOMAIN ScoreProfiles[prof[n]].windows |->
                MkWindow(n, WindowShapes[ScoreProfiles[prof[n]].windows[k]])]

InitScore ==
    /\ \E prof \in [EmployeeIds -> 1..Len(ScoreProfiles)] :
          /\ current_assignments =
                [e \in {x \in EmployeeIds : ScoreProfiles[prof[x]].present} |->
                    ScoreProfiles[prof[e]].listed]
          /\ availabilities = ScoreWindows(prof, NumEmployees)
    /\ employees = [i \in EmployeeIds |-> [id |-> i]]
    /\ all_events = ScoreEvents
    /\ shift = ScoreEvents[1]
    /\ pc = "init"
    /\ arg = None
    /\ ret = <<>>
    /\ supabase = FALSE
    /\ module = "models"
    /\ events_table = <<>>
    /\ event_assignments = {}
    /\ shift_swaps = <<>>

\* a caller scores the employee for the shift
CalculateAssignmentScore ==
    /\ pc = "init"
    /\ \E e \in EmployeeIds :
          /\ arg' = e
          /\ ret' = [fairness |-> calculate_fairness_score(e, current_assignments, all_events),
                     availability |-> calculate_availability_match_score(e, shift,
                                          availabilities),
                     reliability |-> calculate_reliability_score(e, employees),
                     total_score |-> calculate_assignment_score(e, shift,
                                         current_assignments, all_events,
                                         availabilities, employees)]
    /\ pc' = "calculate_assignment_score"
    /\ UNCHANGED <<optimizer_vars, store_vars>>

NextScore == CalculateAssignmentScore

SpecScore == InitScore /\ [][NextScore]_vars

-----------------------------------------------------------------------------
(* The swap validator and routes/events.py request_swap.  ShiftSwapValidator *)
(* and create_shift_swap_request are imported by the route from modules    *)
(* that do not define them; they follow the swap validator's description:  *)
(* two hypothetical assignment states, each checked with                   *)
(* check_all_hard_constraints.                                             *)

\* an event of the given id is in the list
KnownEvent(events, id) == \E i \in DOMAIN events : events[i].id = id

\* the event of the given id
EventById(events, id) == events[CHOOSE i \in DOMAIN events : events[i].id = id]

\* cur with shift_id taken out of the employee's list
WithoutShift(cur, employee_id, shift_id) ==
    [e \in DOMAIN cur |->
        IF e = employee_id
        THEN SelectSeq(cur[e], LAMBDA id : id # shift_id)
        ELSE cur[e]]

\* the issues of one half of the swap, tagged with the employee
Placement(employee_id, own_shift_id, new_shift, cur, events, avails) ==
    LET errors == check_all_hard_constraints(employee_id, new_shift,
                      WithoutShift(cur, employee_id, own_shift_id),
                      events, avails).errors
    IN [i \in DOMAIN errors |-> [employee |-> employee_id, issue |-> errors[i]]]

\* mutant: only the initiator's half is checked
validate_swap_one_sided(initiator_id, target_id, initiator_shift_id, target_shift_id, cur, events, avails) ==
    LET initiator_shift == EventById(events, initiator_shift_id)
        target_shift == EventById(events, target_shift_id)
    IN IF ~KnownEvent(events, initiator_shift_id) \/ ~KnownEvent(events, target_shift_id)
       THEN [ok |-> FALSE, issues |-> <<[employee |-> None, issue |-> "NotFound"]>>]
       ELSE LET issues == Placement(initiator_id, initiator_shift_id, target_shift,
                                    cur, events, avails)
            IN [ok |-> issues = <<>>, issues |-> issues]

validate_swap(initiator_id, target_id, initiator_shift_id, target_shift_id, cur, events, avails) ==
    LET initiator_shift == EventById(events, initiator_shift_id)
        target_shift == EventById(events, target_shift_id)
    IN IF ~KnownEvent(events, initiator_shift_id) \/ ~KnownEvent(events, target_shift_id)
       THEN [ok |-> FALSE, issues |-> <<[employee |-> None, issue |-> "NotFound"]>>]
       ELSE LET issues == Placement(initiator_id, initiator_shift_id, target_shift,
                                    cur, events, avails)
                          \o Placement(target_id, target_shift_id, initiator_shift,
                                       cur, events, avails)
            IN [ok |-> issues = <<>>, issues |-> issues]

\* the row create_shift_swap_request inserts
create_shift_swap_request(user_id, target_id, my_shift_id, target_shift_id) ==
    [initiator_id |-> user_id, target_employee_id |-> target_id,
     initiator_shift_id |-> my_shift_id, target_shift_id |-> target_shift_id,
     status |-> "pending"]

\* POST /swap/request for the session's user: [status, body] and the table
request_swap(user_id, target_id, my_shift_id, target_shift_id, cur, events, avails, swaps, stored) ==
    IF target_id = None \/ my_shift_id = None \/ target_shift_id = None
    THEN [status |-> 400, body |-> "Missing required fields", issues |-> <<>>,
          swaps |-> swaps]
    ELSE LET v == validate_swap(user_id, target_id, my_shift_id, target_shift_id,
                                cur, events, avails)
         IN IF ~v.ok
            THEN [status |-> 400, body |-> "error", issues |-> v.issues, swaps |-> swaps]
            ELSE IF stored
                 THEN [status |-> 201, body |-> "Swap request sent", issues |-> <<>>,
                       swaps |-> Append(swaps,
                                    create_shift_swap_request(user_id, target_id,
                                        my_shift_id, target_shift_id))]
                 ELSE [status |-> 500, body |-> "Failed to create swap",
                       issues |-> <<>>, swaps |-> swaps]

-----------------------------------------------------------------------------
(* SpecSwap: swap requests of the session's user Emp.  Employee i holds    *)
(* event i; Emp also holds the last event, 15:00-22:00, which no swap      *)
(* names.  Every employee has one window, the morning or the whole span.   *)

InitSwap ==
    /\ \E f \in [1..NumEvents -> 1..Len(ShiftShapes)] :
          all_events = [i \in 1..NumEvents |-> MkEvent(i, ShiftShapes[f[i]], 1)]
                       \o <<MkEvent(NumEvents + 1, ShiftShapes[3], 1)>>
    /\ employees = [i \in 1..NumUsers |-> [id |-> i]]
    /\ \E w \in [1..NumUsers -> {1, 3}] :
          availabilities = [i \in 1..NumUsers |-> MkWindow(i, WindowShapes[w[i]])]
    /\ current_assignments =
          [i \in 1..NumUsers |->
              (IF i <= NumEvents THEN <<i>> ELSE <<>>)
              \o (IF i = Emp THEN <<NumEvents + 1>> ELSE <<>>)]
    /\ shift = None
    /\ pc = "init"
    /\ arg = None
    /\ ret = <<>>
    /\ supabase = FALSE
    /\ module = "models"
    /\ events_table = <<>>
    /\ event_assignments = {}
    /\ shift_swaps = <<>>

RequestSwap ==
    /\ pc = "init"
    /\ \E target_id \in ((1..NumUsers) \ {Emp}) \cup {None},
          my_shift_id \in (1..NumEvents) \cup {None},
          target_shift_id \in (1..NumEvents) \cup {None},
          stored \in BOOLEAN :
          \E r \in {request_swap(Emp, target_id, my_shift_id, target_shift_id,
                                 current_assignments, all_events, availabilities,
                                 shift_swaps, stored)} :
             /\ arg' = [target_employee_id |-> target_id,
                        initiator_shift_id |-> my_shift_id,
                        target_shift_id |-> target_shift_id]
             /\ ret' = [status |-> r.status, body |-> r.body, issues |-> r.issues]
             /\ shift_swaps' = r.swaps
    /\ pc' = "request_swap"
    /\ UNCHANGED <<optimizer_vars, supabase, module, events_table, event_assignments>>

NextSwap == RequestSwap

SpecSwap == InitSwap /\ [][NextSwap]_vars

-----------------------------------------------------------------------------
(* utils/shift_validator.py: validate_assignment, and the route helper     *)
(* check_assignment_validity.  Events carry their list of assigned         *)
(* employees.  A call returns [raised, is_valid, conflicts]: raised is ""  *)
(* or the exception that leaves the call; a conflict is [severity, type].  *)

\* lines 56-57 and 81-82: the end of a shift, rolled by replace(day=day+1)
\* when it lies before the start; [raised, end].  replace raises ValueError
\* when the day is the last of its month.
RollEnd(start, end) ==
    IF TypeError(end, start)
    THEN [raised |-> "TypeError", end |-> end.t]
    ELSE IF end.t < start.t
         THEN IF end.t \div PerDay = MonthEndDay
              THEN [raised |-> "ValueError", end |-> end.t]
              ELSE [raised |-> "", end |-> end.t + PerDay]
         ELSE [raised |-> "", end |-> end.t]

\* the events the loop at lines 63-89 keeps for the employee
OtherEvents(employee_id, event, events) ==
    SelectSeq(events, LAMBDA o :
        /\ o.id # event.id
        /\ employee_id \in Range(o.assigned)
        /\ parse_datetime(o.start) # None
        /\ parse_datetime(o.end) # None)

\* the conflicts of checks 1 to 3, given the rolled end of the event and
\* employee_assignments (event, start, end, duration)
Conflicts(event_start, event_end, employee_assignments) ==
    LET n == Len(employee_assignments)
        overlaps(a) == ~(event_end <= a.start \/ event_start >= a.end)
        before(a) == event_end <= a.start /\ a.start - event_end < min_break_hours
        after(a) == a.end <= event_start /\ event_start - a.end < min_break_hours
        check1 == SelectSeq(employee_assignments, overlaps)
        breaks(a) == (IF before(a) THEN <<[severity |-> "warning", type |-> "BreakBefore"]>>
                      ELSE <<>>)
                     \o (IF after(a) THEN <<[severity |-> "warning", type |-> "BreakAfter"]>>
                         ELSE <<>>)
        check2[i \in 0..n] ==
            IF i = 0 THEN <<>> ELSE check2[i - 1] \o breaks(employee_assignments[i])
        same_day == SelectSeq(employee_assignments,
                              LAMBDA a : a.start \div PerDay = event_start \div PerDay)
        daily_hours == (event_end - event_start)
                       + SumSeq([i \in DOMAIN same_day |-> same_day[i].duration])
    IN [i \in DOMAIN check1 |-> [severity |-> "error", type |-> "Overlaps"]]
       \o check2[n]
       \o (IF daily_hours > max_daily_hours
           THEN <<[severity |-> "warning", type |-> "DailyHours"]>>
           ELSE <<>>)

validate_assignment(employee_id, event, events) ==
    IF parse_datetime(event.start) = None \/ parse_datetime(event.end) = None
    THEN [raised |-> "", is_valid |-> FALSE,
          conflicts |-> <<[severity |-> "error", type |-> "InvalidTime"]>>]
    ELSE LET own == RollEnd(event.start, event.end)
             others == OtherEvents(employee_id, event, events)
             rolled == [i \in DOMAIN others |-> RollEnd(others[i].start, others[i].end)]
             employee_assignments ==
                 [i \in DOMAIN others |->
                     [event |-> others[i].id,
                      start |-> others[i].start.t,
                      end |-> rolled[i].end,
                      duration |-> rolled[i].end - others[i].start.t]]
             \* the comparisons of checks 1 and 2 meet an aware and a naive datetime
             mixed == \E i \in DOMAIN others : TypeError(event.start, others[i].start)
             conflicts == Conflicts(event.start.t, own.end, employee_assignments)
         IN IF own.raised # ""
            THEN [raised |-> own.raised, is_valid |-> FALSE, conflicts |-> <<>>]
            ELSE IF FirstRaised(rolled) # ""
                 THEN [raised |-> FirstRaised(rolled), is_valid |-> FALSE, conflicts |-> <<>>]
                 ELSE IF mixed
                      THEN [raised |-> "TypeError", is_valid |-> FALSE, conflicts |-> <<>>]
                      ELSE [raised |-> "",
                            is_valid |-> \A i \in DOMAIN conflicts :
                                            conflicts[i].severity # "error",
                            conflicts |-> conflicts]

\* routes/events.py: [raised, is_valid, error_message]
check_assignment_validity(user_id, event, events, avails) ==
    IF ~is_employee_available(user_id, event.start, event.end, avails)
    THEN [raised |-> "", is_valid |-> FALSE, error_message |-> "not available"]
    ELSE LET v == validate_assignment(user_id, event, events)
         IN IF v.raised # ""
            THEN [raised |-> v.raised, is_valid |-> FALSE, error_message |-> ""]
            ELSE IF ~v.is_valid
                 THEN [raised |-> "", is_valid |-> FALSE, error_message |-> "conflicts"]
                 ELSE [raised |-> "", is_valid |-> TRUE, error_message |-> ""]

-----------------------------------------------------------------------------
(* Flask/app/algoritme1.py: ConflictDetector.  Events carry their list of  *)
(* assigned employees.  A call returns [raised, conflicts]: raised is ""   *)
(* or the exception that leaves the call; a conflict is [conflict_type,    *)
(* event_ids, severity].                                                   *)

detector_min_break_hours == 16  \* 8.0 h

\* _parse_datetime raises ValueError for the stamp
ParseRaises(dt_string) == dt_string.kind = "bad"

\* mutant: only the first half of the condition is tested
OverlapConditionHalf(event_a, event_b) ==
    IF \/ ParseRaises(event_a.start) \/ ParseRaises(event_a.end)
       \/ ParseRaises(event_b.start) \/ ParseRaises(event_b.end)
    THEN [raised |-> "ValueError", value |-> FALSE]
    ELSE IF TypeError(event_a.start, event_b.end)
         THEN [raised |-> "TypeError", value |-> FALSE]
         ELSE [raised |-> "", value |-> event_a.start.t < event_b.end.t]

\* the test of _check_overlapping_shifts for the pair (event_a, event_b):
\* "" and the value of the condition, or the exception raised
OverlapCondition(event_a, event_b) ==
    IF \/ ParseRaises(event_a.start) \/ ParseRaises(event_a.end)
       \/ ParseRaises(event_b.start) \/ ParseRaises(event_b.end)
    THEN [raised |-> "ValueError", value |-> FALSE]
    ELSE IF TypeError(event_a.start, event_b.end)
         THEN [raised |-> "TypeError", value |-> FALSE]
         ELSE IF ~(event_a.start.t < event_b.end.t)
              THEN [raised |-> "", value |-> FALSE]
              ELSE IF TypeError(event_a.end, event_b.start)
                   THEN [raised |-> "TypeError", value |-> FALSE]
                   ELSE [raised |-> "", value |-> event_a.end.t > event_b.start.t]

\* the pairs (i, j), i < j, in the order of the two loops
RECURSIVE Pairs(_, _, _)
Pairs(i, j, n) ==
    IF i >= n THEN <<>>
    ELSE IF j > n THEN Pairs(i + 1, i + 2, n)
         ELSE <<<<i, j>>>> \o Pairs(i, j + 1, n)

check_overlapping_shifts(employee_id, events) ==
    LET pairs == Pairs(1, 2, Len(events))
        outcomes == [k \in DOMAIN pairs |->
                        OverlapCondition(events[pairs[k][1]], events[pairs[k][2]])]
        hits == SelectSeq(pairs, LAMBDA p : OverlapCondition(events[p[1]], events[p[2]]).value)
    IN IF FirstRaised(outcomes) # ""
       THEN [raised |-> FirstRaised(outcomes), conflicts |-> <<>>]
       ELSE [raised |-> "",
             conflicts |-> [k \in DOMAIN hits |->
                               [conflict_type |-> "overlapping_shifts",
                                event_ids |-> <<events[hits[k][1]].id, events[hits[k][2]].id>>,
                                severity |-> "error"]]]

\* the loop of _check_insufficient_breaks over consecutive events
check_insufficient_breaks(employee_id, events, min_break) ==
    LET idx == [i \in 1..(Len(events) - 1) |-> i]
        raises(i) == \/ ParseRaises(events[i].end)
                     \/ ParseRaises(events[i + 1].start)
        mixed(i) == ~raises(i) /\ TypeError(events[i + 1].start, events[i].end)
        break_time(i) == events[i + 1].start.t - events[i].end.t
        hits == SelectSeq(idx, LAMBDA i : 0 < break_time(i) /\ break_time(i) < min_break)
    IN IF \E i \in DOMAIN idx : raises(i) \/ mixed(i)
       THEN [raised |-> LET first == CHOOSE i \in DOMAIN idx :
                                        /\ raises(i) \/ mixed(i)
                                        /\ \A j \in 1..(i - 1) : ~raises(j) /\ ~mixed(j)
                        IN IF raises(first) THEN "ValueError" ELSE "TypeError",
             conflicts |-> <<>>]
       ELSE [raised |-> "",
             conflicts |-> [k \in DOMAIN hits |->
                               [conflict_type |-> "insufficient_break",
                                event_ids |-> <<events[hits[k]].id, events[hits[k] + 1].id>>,
                                severity |-> "warning"]]]

\* _check_daily_hours: the days in the order of their first event
check_daily_hours(employee_id, events, max_hours) ==
    LET bad == \E i \in DOMAIN events :
                  ParseRaises(events[i].start) \/ ParseRaises(events[i].end)
        mixed == \E i \in DOMAIN events : TypeError(events[i].end, events[i].start)
        date(i) == events[i].start.t \div PerDay
        firsts == SelectSeq([i \in DOMAIN events |-> i],
                            LAMBDA i : \A j \in 1..(i - 1) : date(j) # date(i))
        day_events(d) == SelectSeq(events, LAMBDA e : e.start.t \div PerDay = d)
        total_hours(d) == SumSeq([k \in DOMAIN day_events(d) |->
                                     day_events(d)[k].end.t - day_events(d)[k].start.t])
        over == SelectSeq(firsts, LAMBDA i : total_hours(date(i)) > max_hours)
    IN IF bad THEN [raised |-> "ValueError", conflicts |-> <<>>]
       ELSE IF mixed THEN [raised |-> "TypeError", conflicts |-> <<>>]
       ELSE [raised |-> "",
             conflicts |-> [k \in DOMAIN over |->
                               [conflict_type |-> "excessive_daily_hours",
                                event_ids |-> [m \in DOMAIN day_events(date(over[k])) |->
                                                  day_events(date(over[k]))[m].id],
                                severity |-> "warning"]]]

\* sorted(all_events, key=lambda e: e['start']): ascending, stable
SortByStart(events) ==
    LET less(a, b) == \/ StartString(a) < StartString(b)
                      \/ /\ StartString(a) = StartString(b)
                         /\ ~tzinfo(a.start) /\ tzinfo(b.start)
        rank(i) == Cardinality({j \in DOMAIN events : less(events[j], events[i])})
                   + Cardinality({j \in DOMAIN events :
                                     /\ j < i
                                     /\ ~less(events[i], events[j])
                                     /\ ~less(events[j], events[i])})
                   + 1
    IN [r \in DOMAIN events |-> events[CHOOSE i \in DOMAIN events : rank(i) = r]]

check_new_assignment(employee_id, new_event, existing_events, min_break, max_hours) ==
    LET employee_existing == SelectSeq(existing_events,
                                       LAMBDA e : employee_id \in Range(e.assigned))
        sorted_events == SortByStart(employee_existing \o <<new_event>>)
        c1 == check_overlapping_shifts(employee_id, sorted_events)
        c2 == check_insufficient_breaks(employee_id, sorted_events, min_break)
        c3 == check_daily_hours(employee_id, sorted_events, max_hours)
        conflicts == c1.conflicts \o c2.conflicts \o c3.conflicts
    IN IF FirstRaised(<<c1, c2, c3>>) # ""
       THEN [raised |-> FirstRaised(<<c1, c2, c3>>), conflicts |-> <<>>]
       ELSE [raised |-> "",
             conflicts |-> SelectSeq(conflicts,
                               LAMBDA c : new_event.id \in Range(c.event_ids))]

\* the module's validate_assignment: [raised, is_valid, conflicts]
detector_validate_assignment(employee_id, event, events) ==
    LET r == check_new_assignment(employee_id, event, events,
                                  detector_min_break_hours, max_daily_hours)
    IN [raised |-> r.raised,
        is_valid |-> r.raised = "" /\ Len(r.conflicts) = 0,
        conflicts |-> r.conflicts]

-----------------------------------------------------------------------------
(* SpecValidate: the manager-facing checks for the employee Emp and the    *)
(* event all_events[1].  Day 1 of the scenarios is the last day of its     *)
(* month.                                                                  *)

\* Shift time shapes of the validation scenarios:
\*  1  09:00-14:00          2  14:00-21:30 (touches 1, 12.5 h together)
\*  3  13:00-16:30 (overlaps 1 and 2)
\*  4  14:30-16:30 (0.5 h after 1)
\*  5  22:00-03:00 entered on day 0 (end before start)
\*  6  22:00-03:00 entered on day 1 (end before start, on the month's last day)
\*  7  unparseable start
\*  8  22:00-23:30 (8 h after 1)
\*  9  next day 09:00-14:00
ValidateShapes ==
    << [start |-> Iso(18), end |-> Iso(28)],
       [start |-> Iso(28), end |-> Iso(43)],
       [start |-> Iso(26), end |-> Iso(33)],
       [start |-> Iso(29), end |-> Iso(33)],
       [start |-> Iso(44), end |-> Iso(6)],
       [start |-> Iso(PerDay + 44), end |-> Iso(PerDay + 6)],
       [start |-> Bad, end |-> Iso(28)],
       [start |-> Iso(44), end |-> Iso(47)],
       [start |-> Iso(PerDay + 18), end |-> Iso(PerDay + 28)] >>

InitValidate ==
    /\ \E f \in [1..NumEvents -> 1..Len(ValidateShapes)], held \in SUBSET (1..NumEvents) :
          all_events = [i \in 1..NumEvents |->
                           [id |-> i,
                            start |-> ValidateShapes[f[i]].start,
                            end |-> ValidateShapes[f[i]].end,
                            capacity |-> 1,
                            assigned |-> IF i \in held THEN <<Emp>> ELSE <<>>]]
    /\ shift = all_events[1]
    /\ employees = <<[id |-> Emp]>>
    /\ \E w \in {<<>>, <<1>>, <<3>>} :
          availabilities = [i \in DOMAIN w |-> MkWindow(Emp, WindowShapes[w[i]])]
    /\ current_assignments = <<>>
    /\ pc = "init"
    /\ arg = None
    /\ ret = <<>>
    /\ supabase = FALSE
    /\ module = "models"
    /\ events_table = <<>>
    /\ event_assignments = {}
    /\ shift_swaps = <<>>

\* the two overlap tests applied to a pair of events, in both orders
ShiftsOverlap ==
    /\ pc = "init"
    /\ \E i, j \in DOMAIN all_events :
          /\ arg' = <<i, j>>
          /\ ret' = [ab |-> shifts_overlap(all_events[i], all_events[j]),
                     ba |-> shifts_overlap(all_events[j], all_events[i]),
                     detector_ab |-> check_overlapping_shifts(Emp,
                                        <<all_events[i], all_events[j]>>),
                     detector_ba |-> check_overlapping_shifts(Emp,
                                        <<all_events[j], all_events[i]>>)]
    /\ pc' = "shifts_overlap"
    /\ UNCHANGED <<optimizer_vars, store_vars>>

\* a caller validates the assignment of the employee to the event
ValidateAssignment ==
    /\ pc = "init"
    /\ \E v \in {validate_assignment(Emp, shift, all_events)} :
          /\ ret' = v
          /\ pc' = "validate_assignment"
    /\ UNCHANGED <<optimizer_vars, arg, store_vars>>

\* the assign or confirm route checks the assignment before storing it
CheckAssignmentValidity ==
    /\ pc = "init"
    /\ \E v \in {check_assignment_validity(Emp, shift, all_events, availabilities)} :
          /\ ret' = v
          /\ pc' = "check_assignment_validity"
    /\ UNCHANGED <<optimizer_vars, arg, store_vars>>

\* a caller validates the assignment with the conflict detector
DetectorValidateAssignment ==
    /\ pc = "init"
    /\ \E v \in {detector_validate_assignment(Emp, shift, all_events)} :
          /\ ret' = v
          /\ pc' = "detector_validate_assignment"
    /\ UNCHANGED <<optimizer_vars, arg, store_vars>>

\* the optimizer measures the event
GetShiftDurationHours ==
    /\ pc = "init"
    /\ ret' = [duration |-> get_shift_duration_hours(shift)]
    /\ pc' = "get_shift_duration_hours"
    /\ UNCHANGED <<optimizer_vars, arg, store_vars>>

NextValidate ==
    \/ ShiftsOverlap
    \/ ValidateAssignment
    \/ DetectorValidateAssignment
    \/ GetShiftDurationHours
    \/ CheckAssignmentValidity

SpecValidate == InitValidate /\ [][NextValidate]_vars

-----------------------------------------------------------------------------
(* models.py, models_simple.py: the event-assignment store.  A stored      *)
(* event is [id, start, end, capacity, assigned, pending]; the two lists   *)
(* are kept in the record only without Supabase, with Supabase they are    *)
(* rows [event_id, user_id, status] of event_assignments.  Each operation  *)
(* returns [ok, events, rows]: its result and the store as it leaves it.   *)
(* Store calls are taken to answer (the except branches are not modelled). *)

HasEvent(evs, event_id) == \E i \in DOMAIN evs : evs[i].id = event_id

StoredEvent(evs, event_id) == evs[CHOOSE i \in DOMAIN evs : evs[i].id = event_id]

\* the store with the record of event.id replaced by event
PutEvent(evs, event) ==
    [i \in DOMAIN evs |-> IF evs[i].id = event.id THEN event ELSE evs[i]]

\* list.remove(x): drops the first occurrence of x
RemoveFirst(seq, x) ==
    LET k == CHOOSE i \in DOMAIN seq : seq[i] = x /\ \A j \in 1..(i - 1) : seq[j] # x
    IN SubSeq(seq, 1, k - 1) \o SubSeq(seq, k + 1, Len(seq))

\* .eq("event_id", event_id).eq("user_id", user_id)
RowsOf(rows, event_id, user_id) ==
    {r \in rows : r.event_id = event_id /\ r.user_id = user_id}

\* .eq("event_id", event_id).eq("status", status)
RowsWithStatus(rows, event_id, status) ==
    {r \in rows : r.event_id = event_id /\ r.status = status}

\* .update({"status": "confirmed"}).eq("event_id", ...).eq("user_id", ...)
ConfirmRows(rows, event_id, user_id) ==
    {IF r.event_id = event_id /\ r.user_id = user_id
     THEN [r EXCEPT !.status = "confirmed"]
     ELSE r : r \in rows}

get_user_by_id(users, user_id) == \E i \in DOMAIN users : users[i].id = user_id

\* the rows of a query are taken in ascending order of user id
enrich_events_with_assignments(sb, evs, rows) ==
    IF ~sb
    THEN evs
    ELSE [i \in DOMAIN evs |->
            [evs[i] EXCEPT
                !.assigned = SetToSeq({r.user_id : r \in RowsWithStatus(rows, evs[i].id, "confirmed")}),
                !.pending = SetToSeq({r.user_id : r \in RowsWithStatus(rows, evs[i].id, "pending")})]]

list_events(sb, evs, rows) == enrich_events_with_assignments(sb, evs, rows)

\* for an event_id the store holds (callers test HasEvent for None)
get_event_by_id(sb, evs, rows, event_id) ==
    enrich_events_with_assignments(sb, <<StoredEvent(evs, event_id)>>, rows)[1]

\* mod = "models" checks that the user exists, models_simple does not
assign_user_to_event(sb, mod, users, evs, rows, event_id, user_id) ==
    IF ~sb
    THEN IF ~HasEvent(evs, event_id)
         THEN [ok |-> FALSE, events |-> evs, rows |-> rows]
         ELSE LET event == StoredEvent(evs, event_id)
              IN IF user_id \in Range(event.assigned)
                 THEN [ok |-> TRUE, events |-> evs, rows |-> rows]
                 ELSE IF Len(event.assigned) >= event.capacity
                      THEN [ok |-> FALSE, events |-> evs, rows |-> rows]
                      ELSE [ok |-> TRUE,
                            events |-> PutEvent(evs,
                                [event EXCEPT
                                    !.assigned = Append(@, user_id),
                                    !.pending = IF user_id \in Range(@)
                                                THEN RemoveFirst(@, user_id)
                                                ELSE @]),
                            rows |-> rows]
    ELSE IF mod = "models" /\ ~get_user_by_id(users, user_id)
         THEN [ok |-> FALSE, events |-> evs, rows |-> rows]
         ELSE IF ~HasEvent(evs, event_id)
              THEN [ok |-> FALSE, events |-> evs, rows |-> rows]
              ELSE IF RowsOf(rows, event_id, user_id) # {}
                   THEN [ok |-> TRUE, events |-> evs,
                         rows |-> ConfirmRows(rows, event_id, user_id)]
                   ELSE IF Cardinality(RowsWithStatus(rows, event_id, "confirmed"))
                              >= get_event_by_id(sb, evs, rows, event_id).capacity
                        THEN [ok |-> FALSE, events |-> evs, rows |-> rows]
                        ELSE [ok |-> TRUE, events |-> evs,
                              rows |-> rows \cup {[event_id |-> event_id,
                                                   user_id |-> user_id,
                                                   status |-> "confirmed"]}]

\* mutant: only the pending list is looked at before the append
subscribe_user_to_event_pending_only(sb, evs, rows, event_id, user_id) ==
    IF ~sb
    THEN IF ~HasEvent(evs, event_id)
         THEN [ok |-> FALSE, events |-> evs, rows |-> rows]
         ELSE LET event == StoredEvent(evs, event_id)
              IN IF user_id \in Range(event.pending)
                 THEN [ok |-> TRUE, events |-> evs, rows |-> rows]
                 ELSE [ok |-> TRUE,
                       events |-> PutEvent(evs, [event EXCEPT !.pending = Append(@, user_id)]),
                       rows |-> rows]
    ELSE IF RowsOf(rows, event_id, user_id) # {}
         THEN [ok |-> TRUE, events |-> evs, rows |-> rows]
         ELSE [ok |-> TRUE, events |-> evs,
               rows |-> rows \cup {[event_id |-> event_id, user_id |-> user_id,
                                    status |-> "pending"]}]

subscribe_user_to_event(sb, evs, rows, event_id, user_id) ==
    IF ~sb
    THEN IF ~HasEvent(evs, event_id)
         THEN [ok |-> FALSE, events |-> evs, rows |-> rows]
         ELSE LET event == StoredEvent(evs, event_id)
              IN IF user_id \in Range(event.assigned) \/ user_id \in Range(event.pending)
                 THEN [ok |-> TRUE, events |-> evs, rows |-> rows]
                 ELSE [ok |-> TRUE,
                       events |-> PutEvent(evs, [event EXCEPT !.pending = Append(@, user_id)]),
                       rows |-> rows]
    ELSE IF RowsOf(rows, event_id, user_id) # {}
         THEN [ok |-> TRUE, events |-> evs, rows |-> rows]
         ELSE [ok |-> TRUE, events |-> evs,
               rows |-> rows \cup {[event_id |-> event_id, user_id |-> user_id,
                                    status |-> "pending"]}]

\* models.py: without Supabase nothing is removed
unassign_user_from_event(sb, evs, rows, event_id, user_id) ==
    IF ~sb
    THEN [ok |-> TRUE, events |-> evs, rows |-> rows]
    ELSE [ok |-> TRUE, events |-> evs, rows |-> rows \ RowsOf(rows, event_id, user_id)]

confirm_user_assignment(sb, mod, users, evs, rows, event_id, user_id) ==
    assign_user_to_event(sb, mod, users, evs, rows, event_id, user_id)

\* models_simple.py
unsubscribe_user_from_event(sb, evs, rows, event_id, user_id) ==
    IF ~sb
    THEN IF ~HasEvent(evs, event_id)
         THEN [ok |-> FALSE, events |-> evs, rows |-> rows]
         ELSE LET event == StoredEvent(evs, event_id)
              IN [ok |-> TRUE,
                  events |-> PutEvent(evs,
                      [event EXCEPT
                          !.assigned = IF user_id \in Range(@)
                                       THEN RemoveFirst(@, user_id) ELSE @,
                          !.pending = IF user_id \in Range(@)
                                      THEN RemoveFirst(@, user_id) ELSE @]),
                  rows |-> rows]
    ELSE [ok |-> TRUE, events |-> evs, rows |-> rows \ RowsOf(rows, event_id, user_id)]

\* models_simple.py
confirm_user_for_event(sb, evs, rows, event_id, user_id) ==
    IF ~sb
    THEN IF ~HasEvent(evs, event_id)
         THEN [ok |-> FALSE, events |-> evs, rows |-> rows]
         ELSE LET event == StoredEvent(evs, event_id)
              IN [ok |-> TRUE,
                  events |-> PutEvent(evs,
                      [event EXCEPT
                          !.pending = IF user_id \in Range(@)
                                      THEN RemoveFirst(@, user_id) ELSE @,
                          !.assigned = IF user_id \notin Range(@)
                                       THEN Append(@, user_id) ELSE @]),
                  rows |-> rows]
    ELSE [ok |-> TRUE, events |-> evs, rows |-> ConfirmRows(rows, event_id, user_id)]

\* data carries the capacity field of the edit form
update_event(sb, evs, rows, event_id, data) ==
    IF ~HasEvent(evs, event_id)
    THEN [ok |-> FALSE, events |-> evs, rows |-> rows]
    ELSE [ok |-> TRUE,
          events |-> PutEvent(evs, [StoredEvent(evs, event_id) EXCEPT
                                       !.capacity = data.capacity]),
          rows |-> rows]

-----------------------------------------------------------------------------
(* routes/events.py: the autofill route *)

\* the event ids appended to current_assignments[emp_id], in the order of evs
RECURSIVE AssignedEventIds(_, _)
AssignedEventIds(evs, emp_id) ==
    IF evs = <<>> THEN <<>>
    ELSE LET times == Cardinality({i \in DOMAIN Head(evs).assigned :
                                      Head(evs).assigned[i] = emp_id})
         IN [j \in 1..times |-> Head(evs).id] \o AssignedEventIds(Tail(evs), emp_id)

\* users and avails stand for list_users and list_availabilities
prepare_autofill_data(sb, users, avails, evs, rows) ==
    LET emps == SelectSeq(users, LAMBDA e : e.id # None)
        events == list_events(sb, evs, rows)
        valid_employee_ids == {emps[i].id : i \in DOMAIN emps}
        listed == {e \in valid_employee_ids :
                      \E i \in DOMAIN events : e \in Range(events[i].assigned)}
    IN [employees |-> emps,
        all_events |-> events,
        availabilities |-> avails,
        current_assignments |-> [e \in listed |-> AssignedEventIds(events, e)]]

\* the loop that stores the picks: [events, rows, newly_assigned]
RECURSIVE AssignPicks(_, _, _, _, _, _, _, _, _)
AssignPicks(sb, mod, users, evs, rows, event_id, picks, valid_employee_ids, newly_assigned) ==
    IF picks = <<>>
    THEN [events |-> evs, rows |-> rows, newly_assigned |-> newly_assigned]
    ELSE IF Head(picks) \notin valid_employee_ids
         THEN AssignPicks(sb, mod, users, evs, rows, event_id, Tail(picks),
                          valid_employee_ids, newly_assigned)
         ELSE LET r == assign_user_to_event(sb, mod, users, evs, rows, event_id, Head(picks))
              IN AssignPicks(sb, mod, users, r.events, r.rows, event_id, Tail(picks),
                             valid_employee_ids,
                             IF r.ok THEN Append(newly_assigned, Head(picks))
                             ELSE newly_assigned)

autofill_shift(sb, mod, users, avails, evs, rows, event_id) ==
    IF ~HasEvent(evs, event_id)
    THEN [status |-> 404, newly_assigned |-> <<>>, errors |-> <<>>,
          events |-> evs, rows |-> rows]
    ELSE LET s == get_event_by_id(sb, evs, rows, event_id)
             already_assigned == Len(s.assigned)
             slots_to_fill == IF s.capacity - already_assigned > 0
                              THEN s.capacity - already_assigned ELSE 0
         IN IF slots_to_fill = 0
            THEN [status |-> 200, newly_assigned |-> <<>>, errors |-> <<>>,
                  events |-> evs, rows |-> rows]
            ELSE LET data == prepare_autofill_data(sb, users, avails, evs, rows)
                     r == auto_assign_shift(s, data.employees, data.all_events,
                                            data.availabilities,
                                            data.current_assignments, slots_to_fill)
                     slots_unfilled == slots_to_fill - Len(r.assigned)
                     errors == IF slots_unfilled > 0 /\ r.errors = <<>>
                               THEN <<[msg |-> "Could not fill slot(s)",
                                       slots_unfilled |-> slots_unfilled]>>
                               ELSE r.errors
                     done == AssignPicks(sb, mod, users, evs, rows, event_id, r.assigned,
                                         {data.employees[i].id : i \in DOMAIN data.employees},
                                         <<>>)
                 IN [status |-> 200, newly_assigned |-> done.newly_assigned,
                     errors |-> errors, events |-> done.events, rows |-> done.rows]

-----------------------------------------------------------------------------
(* SpecStore: the store operations and the autofill route, called in any    *)
(* order on two events and NumUsers users                                   *)

\* the two stored events: 09:00-14:00 and 14:30-16:30 of day 0
StoreShapes == <<ShiftShapes[1], ShiftShapes[2]>>

EventIds == DOMAIN StoreShapes
UserIds == 1..NumUsers

InitStore ==
    /\ supabase \in BOOLEAN
    /\ module \in {"models", "models_simple"}
    /\ \E caps \in [EventIds -> 1..MaxCapacity] :
          events_table =
              [i \in EventIds |->
                  [id |-> i, start |-> StoreShapes[i].start, end |-> StoreShapes[i].end,
                   capacity |-> caps[i], assigned |-> <<>>, pending |-> <<>>]]
    /\ event_assignments = {}
    /\ shift_swaps = <<>>
    /\ employees = [i \in UserIds |-> [id |-> i]]
    /\ availabilities = [i \in UserIds |-> MkWindow(i, WindowShapes[3])]
    /\ all_events = <<>>
    /\ current_assignments = <<>>
    /\ shift = None
    /\ pc = "init"
    /\ arg = None
    /\ ret = [ok |-> FALSE]

\* the store and the result as a store operation with outcome r leaves them
Stored(r, name) ==
    /\ events_table' = r.events
    /\ event_assignments' = r.rows
    /\ ret' = [ok |-> r.ok]
    /\ pc' = name
    /\ UNCHANGED <<optimizer_vars, arg, supabase, module, shift_swaps>>

AssignUserToEvent ==
    \E event_id \in EventIds, user_id \in UserIds :
        \E r \in {assign_user_to_event(supabase, module, employees, events_table,
                                       event_assignments, event_id, user_id)} :
            Stored(r, "assign_user_to_event")

SubscribeUserToEvent ==
    \E event_id \in EventIds, user_id \in UserIds :
        \E r \in {subscribe_user_to_event(supabase, events_table, event_assignments,
                                          event_id, user_id)} :
            Stored(r, "subscribe_user_to_event")

UnassignUserFromEvent ==
    /\ module = "models"
    /\ \E event_id \in EventIds, user_id \in UserIds :
          \E r \in {unassign_user_from_event(supabase, events_table, event_assignments,
                                             event_id, user_id)} :
              Stored(r, "unassign_user_from_event")

ConfirmUserAssignment ==
    /\ module = "models"
    /\ \E event_id \in EventIds, user_id \in UserIds :
          \E r \in {confirm_user_assignment(supabase, module, employees, events_table,
                                            event_assignments, event_id, user_id)} :
              Stored(r, "confirm_user_assignment")

UnsubscribeUserFromEvent ==
    /\ module = "models_simple"
    /\ \E event_id \in EventIds, user_id \in UserIds :
          \E r \in {unsubscribe_user_from_event(supabase, events_table, event_assignments,
                                                event_id, user_id)} :
              Stored(r, "unsubscribe_user_from_event")

ConfirmUserForEvent ==
    /\ module = "models_simple"
    /\ \E event_id \in EventIds, user_id \in UserIds :
          \E r \in {confirm_user_for_event(supabase, events_table, event_assignments,
                                           event_id, user_id)} :
              Stored(r, "confirm_user_for_event")

UpdateEvent ==
    \E event_id \in EventIds, capacity \in 1..MaxCapacity :
        \E r \in {update_event(supabase, events_table, event_assignments, event_id,
                               [capacity |-> capacity])} :
            Stored(r, "update_event")

\* routes/events.py imports the store operations of models.py
AutofillShift ==
    /\ module = "models"
    /\ \E event_id \in EventIds :
          \E r \in {autofill_shift(supabase, module, employees, availabilities,
                                   events_table, event_assignments, event_id)} :
              /\ events_table' = r.events
              /\ event_assignments' = r.rows
              /\ ret' = [ok |-> r.status = 200, newly_assigned |-> r.newly_assigned,
                         errors |-> r.errors]
              /\ pc' = "autofill_shift"
              /\ UNCHANGED <<optimizer_vars, arg, supabase, module, shift_swaps>>

NextStore ==
    \/ AssignUserToEvent
    \/ SubscribeUserToEvent
    \/ UnassignUserFromEvent
    \/ ConfirmUserAssignment
    \/ UnsubscribeUserFromEvent
    \/ ConfirmUserForEvent
    \/ UpdateEvent
    \/ AutofillShift

SpecStore == InitStore /\ [][NextStore]_vars

-----------------------------------------------------------------------------
(* SpecLists: the operations that put a user on and take a user off the    *)
(* assigned and pending lists of one event, called in any order for        *)
(* NumUsers users, in both store modes and for both store modules; arg is  *)
(* the [event_id, user_id] of the last call.                               *)

InitLists ==
    /\ supabase \in BOOLEAN
    /\ module \in {"models", "models_simple"}
    /\ \E capacity \in 1..MaxCapacity :
          events_table = <<[id |-> 1, start |-> StoreShapes[1].start,
                            end |-> StoreShapes[1].end, capacity |-> capacity,
                            assigned |-> <<>>, pending |-> <<>>]>>
    /\ event_assignments = {}
    /\ shift_swaps = <<>>
    /\ employees = [i \in UserIds |-> [id |-> i]]
    /\ availabilities = <<>>
    /\ all_events = <<>>
    /\ current_assignments = <<>>
    /\ shift = None
    /\ pc = "init"
    /\ arg = [event_id |-> None, user_id |-> None]
    /\ ret = [ok |-> FALSE]

\* the store, the result and the arguments as the call name(event_id,
\* user_id) with outcome r leaves them
StoredFor(r, name, event_id, user_id) ==
    /\ events_table' = r.events
    /\ event_assignments' = r.rows
    /\ ret' = [ok |-> r.ok]
    /\ pc' = name
    /\ arg' = [event_id |-> event_id, user_id |-> user_id]
    /\ UNCHANGED <<optimizer_vars, supabase, module, shift_swaps>>

AssignUser ==
    \E event_id \in DOMAIN events_table, user_id \in UserIds :
        \E r \in {assign_user_to_event(supabase, module, employees, events_table,
                                       event_assignments, event_id, user_id)} :
            StoredFor(r, "assign_user_to_event", event_id, user_id)

SubscribeUser ==
    \E event_id \in DOMAIN events_table, user_id \in UserIds :
        \E r \in {subscribe_user_to_event(supabase, events_table, event_assignments,
                                          event_id, user_id)} :
            StoredFor(r, "subscribe_user_to_event", event_id, user_id)

UnassignUser ==
    /\ module = "models"
    /\ \E event_id \in DOMAIN events_table, user_id \in UserIds :
          \E r \in {unassign_user_from_event(supabase, events_table, event_assignments,
                                             event_id, user_id)} :
              StoredFor(r, "unassign_user_from_event", event_id, user_id)

ConfirmUser ==
    /\ module = "models"
    /\ \E event_id \in DOMAIN events_table, user_id \in UserIds :
          \E r \in {confirm_user_assignment(supabase, module, employees, events_table,
                                            event_assignments, event_id, user_id)} :
              StoredFor(r, "confirm_user_assignment", event_id, user_id)

UnsubscribeUser ==
    /\ module = "models_simple"
    /\ \E event_id \in DOMAIN events_table, user_id \in UserIds :
          \E r \in {unsubscribe_user_from_event(supabase, events_table, event_assignments,
                                                event_id, user_id)} :
              StoredFor(r, "unsubscribe_user_from_event", event_id, user_id)

ConfirmUserFor ==
    /\ module = "models_simple"
    /\ \E event_id \in DOMAIN events_table, user_id \in UserIds :
          \E r \in {confirm_user_for_event(supabase, events_table, event_assignments,
                                           event_id, user_id)} :
              StoredFor(r, "confirm_user_for_event", event_id, user_id)

NextLists ==
    \/ AssignUser
    \/ SubscribeUser
    \/ UnassignUser
    \/ ConfirmUser
    \/ UnsubscribeUser
    \/ ConfirmUserFor

SpecLists == InitLists /\ [][NextLists]_vars

-----------------------------------------------------------------------------
(* SpecInterleave: two assign_user_to_event calls of models.py on Supabase, *)
(* one for each of two users, for the same event, each call taking its      *)
(* store reads and writes one at a time.  pc, arg and ret are per call:     *)
(* the statement the call stands at, its local variables and its result.    *)

\* the event both calls name
TheEvent == 1

\* the users the two calls are for
Callers == {Emp, Colleague}

\* the rows a store may hold for the event before the calls: every user has
\* no row, a pending or a confirmed one, the confirmed within the capacity
InitInterleave ==
    /\ supabase = TRUE
    /\ module = "models"
    /\ \E capacity \in 1..MaxCapacity :
          events_table = <<[id |-> TheEvent, start |-> StoreShapes[1].start,
                            end |-> StoreShapes[1].end, capacity |-> capacity,
                            assigned |-> <<>>, pending |-> <<>>]>>
    /\ \E status \in [UserIds -> {"none", "pending", "confirmed"}] :
          /\ Cardinality({u \in UserIds : status[u] = "confirmed"})
                <= events_table[1].capacity
          /\ event_assignments =
                {[event_id |-> TheEvent, user_id |-> u, status |-> status[u]] :
                    u \in {x \in UserIds : status[x] # "none"}}
    /\ shift_swaps = <<>>
    /\ employees = [i \in UserIds |-> [id |-> i]]
    /\ availabilities = <<>>
    /\ all_events = <<>>
    /\ current_assignments = <<>>
    /\ shift = None
    /\ pc = [p \in Callers |-> "get_user_by_id"]
    /\ arg = [p \in Callers |-> [capacity |-> None, count |-> None]]
    /\ ret = [p \in Callers |-> [returned |-> FALSE, ok |-> FALSE]]

\* call p moves to statement at, with local variables locals
Goto(p, at, locals) ==
    /\ pc' = [pc EXCEPT ![p] = at]
    /\ arg' = [arg EXCEPT ![p] = locals]

\* call p returns ok
Return(p, ok) ==
    /\ pc' = [pc EXCEPT ![p] = "returned"]
    /\ ret' = [ret EXCEPT ![p] = [returned |-> TRUE, ok |-> ok]]
    /\ UNCHANGED arg

\* user = get_user_by_id(user_id)
GetUserById(p) ==
    /\ pc[p] = "get_user_by_id"
    /\ IF get_user_by_id(employees, p)
       THEN Goto(p, "get_event_by_id", arg[p]) /\ UNCHANGED ret
       ELSE Return(p, FALSE)
    /\ UNCHANGED <<optimizer_vars, store_vars>>

\* event = get_event_by_id(event_id); capacity is read from it later
GetEventById(p) ==
    /\ pc[p] = "get_event_by_id"
    /\ IF HasEvent(events_table, TheEvent)
       THEN /\ Goto(p, "select_row",
                    [arg[p] EXCEPT !.capacity =
                        get_event_by_id(supabase, events_table, event_assignments,
                                        TheEvent).capacity])
            /\ UNCHANGED ret
       ELSE Return(p, FALSE)
    /\ UNCHANGED <<optimizer_vars, store_vars>>

\* res = select where event_id, user_id
SelectRow(p) ==
    /\ pc[p] = "select_row"
    /\ IF RowsOf(event_assignments, TheEvent, p) # {}
       THEN Goto(p, "update_row", arg[p])
       ELSE Goto(p, "select_confirmed", arg[p])
    /\ UNCHANGED <<optimizer_vars, store_vars, ret>>

\* update status = confirmed where event_id, user_id; return True
UpdateRow(p) ==
    /\ pc[p] = "update_row"
    /\ event_assignments' = ConfirmRows(event_assignments, TheEvent, p)
    /\ Return(p, TRUE)
    /\ UNCHANGED <<optimizer_vars, supabase, module, events_table, shift_swaps>>

\* count_res = select where event_id, status = confirmed; the capacity test
SelectConfirmed(p) ==
    /\ pc[p] = "select_confirmed"
    /\ \E count \in {Cardinality(RowsWithStatus(event_assignments, TheEvent,
                                                "confirmed"))} :
          IF count >= arg[p].capacity
          THEN Return(p, FALSE)
          ELSE Goto(p, "insert_row", [arg[p] EXCEPT !.count = count])
               /\ UNCHANGED ret
    /\ UNCHANGED <<optimizer_vars, store_vars>>

\* insert the confirmed row; return True
InsertRow(p) ==
    /\ pc[p] = "insert_row"
    /\ event_assignments' =
          event_assignments \cup {[event_id |-> TheEvent, user_id |-> p,
                                   status |-> "confirmed"]}
    /\ Return(p, TRUE)
    /\ UNCHANGED <<optimizer_vars, supabase, module, events_table, shift_swaps>>

NextInterleave ==
    \E p \in Callers :
       \/ GetUserById(p)
       \/ GetEventById(p)
       \/ SelectRow(p)
       \/ UpdateRow(p)
       \/ SelectConfirmed(p)
       \/ InsertRow(p)

SpecInterleave == InitInterleave /\ [][NextInterleave]_vars

-----------------------------------------------------------------------------
(* SpecMalformed: the hard-constraint checks, suggest_assignments and       *)
(* auto_assign_shift for candidate and listed shifts whose timestamps may   *)
(* not parse                                                                *)

\* Shift time shapes of the malformed-input scenarios:
\*  1  09:00-14:00          2  14:30-16:30 (0.5 h after 1)
\*  3  unparseable start    4  unparseable end    5  neither parses
MalformedShapes ==
    << ShiftShapes[1],
       ShiftShapes[2],
       ShiftShapes[7],
       [start |-> Iso(18), end |-> Bad],
       [start |-> Bad, end |-> Bad] >>

\* The candidate is the first event.  Each employee has an entry in the
\* assignment state or none, listing any of the events; the colleague is
\* available all along, the employee too or has no window.
InitMalformed ==
    /\ \E f \in [1..NumEvents -> 1..Len(MalformedShapes)] :
          all_events = [i \in 1..NumEvents |-> MkEvent(i, MalformedShapes[f[i]], MaxCapacity)]
    /\ shift = all_events[1]
    /\ employees = <<[id |-> Emp], [id |-> Colleague]>>
    /\ \E with \in {{Emp, Colleague}, {Colleague}} :
          availabilities = [i \in 1..Cardinality(with) |->
                               MkWindow(SetToSeq(with)[i], WindowShapes[3])]
    /\ \E present \in SUBSET {Emp, Colleague} :
          \E ids \in [present -> SUBSET (1..NumEvents)] :
             current_assignments = [e \in present |-> SetToSeq(ids[e])]
    /\ pc = "init"
    /\ arg = None
    /\ ret = <<>>
    /\ supabase = FALSE
    /\ module = "models"
    /\ events_table = <<>>
    /\ event_assignments = {}
    /\ shift_swaps = <<>>

NextMalformed ==
    \/ CheckAllHardConstraints
    \/ SuggestAssignments
    \/ AutoAssignShift

SpecMalformed == InitMalformed /\ [][NextMalformed]_vars

-----------------------------------------------------------------------------
(* Properties of the hard-constraint checks (checked under Spec) *)

Checked == pc = "check_all_hard_constraints"

Reported(error) == error \in Range(ret.errors)

AvailabilityErrors == {"NoWindow", "InvalidTime", "NotWithin"}

Parses(r) == r.start.kind = "iso" /\ r.end.kind = "iso"

\* the shifts of all_events listed for employee e in the assignment state
Listed(e) ==
    {all_events[i] : i \in {j \in DOMAIN all_events :
        \E k \in DOMAIN DictGet(current_assignments, e) :
            current_assignments[e][k] = all_events[j].id}}

\* the windows the employee has submitted
Windows(e) ==
    {availabilities[i] : i \in {j \in DOMAIN availabilities : availabilities[j].user_id = e}}

\* S.start < T.end and S.end > T.start, on the recorded timestamps
Overlap(S, T) ==
    /\ Parses(S) /\ Parses(T)
    /\ S.start.t < T.end.t
    /\ S.end.t > T.start.t

\* C2: an overlap violation is reported if and only if the candidate overlaps
\* (S.start < T.end and S.end > T.start) some shift listed for the employee in
\* the assignment state; shifts that only touch at an endpoint do not count.
C2_OverlapIff ==
    Checked => (Reported("Overlaps") <=> \E T \in Listed(Emp) : Overlap(shift, T))

\* C2 witness: an overlap with another listed shift is reported, and in another
\* reachable case (candidate 14:00-21:30 after 09:00-14:00) nothing is reported;
\* here: the candidate 14:30-16:30 against the listed 15:00-22:00.
C2_Witness ==
    /\ Checked
    /\ Reported("Overlaps")
    /\ shift.start = Iso(29) /\ shift.end = Iso(33)
    /\ \E T \in Listed(Emp) : T.id # shift.id /\ T.start = Iso(30) /\ T.end = Iso(44)

\* C3: an employee with zero availability windows never passes: the hard
\* constraints return ok = false with an availability violation, and the
\* manager-path check is_employee_available returns false, for every shift
\* and every assignment state.
C3_NoWindowsFailClosed ==
    Windows(Emp) = {} =>
        /\ Checked => (~ret.ok /\ \E e \in AvailabilityErrors : Reported(e))
        /\ pc = "is_employee_available" => ~ret.ok

\* C3 witness: an employee without windows and without any other violation was
\* rejected for a well-formed shift.
C3_Witness ==
    /\ Checked
    /\ Windows(Emp) = {}
    /\ Parses(shift)
    /\ ret.errors = <<"NoWindow">>

\* C5: the availability check passes if and only if one single window W of the
\* employee has W.start <= shift.start and shift.end <= W.end.
C5_SingleWindowCovers ==
    Checked =>
        ((~\E e \in AvailabilityErrors : Reported(e))
         <=> \E W \in Windows(Emp) :
                /\ Parses(W) /\ Parses(shift)
                /\ W.start.t <= shift.start.t
                /\ shift.end.t <= W.end.t)

\* C5 witness: the shift 14:00-21:30 lies inside the union of the windows
\* 09:00-15:00 and 15:00-22:00 but inside neither, and the check failed.
C5_Witness ==
    /\ Checked
    /\ shift.start = Iso(28) /\ shift.end = Iso(43)
    /\ Cardinality(Windows(Emp)) = 2
    /\ \E W \in Windows(Emp) : W.start = Iso(18) /\ W.end = Iso(30)
    /\ \E W \in Windows(Emp) : W.start = Iso(30) /\ W.end = Iso(44)
    /\ Reported("NotWithin")

\* the length of a shift as the specification defines it: an end recorded
\* before the start is taken as one calendar day later
Duration(S) ==
    IF S.end.t < S.start.t THEN S.end.t + PerDay - S.start.t ELSE S.end.t - S.start.t

\* C4: the break check fails if and only if some listed shift that does not
\* overlap the candidate ends less than the minimum break before the candidate
\* starts, or starts less than the minimum break after the candidate ends
\* (minimum 1.0 h: a listed shift ending 14:00 fails a candidate starting 14:30
\* and passes one starting 15:00).
C4_BreakIff ==
    Checked =>
        (Reported("Break")
         <=> \E T \in Listed(Emp) :
                /\ Parses(shift) /\ Parses(T)
                /\ ~Overlap(shift, T)
                /\ \/ /\ T.end.t <= shift.start.t
                      /\ shift.start.t - T.end.t < 1 * PerHour
                   \/ /\ shift.end.t <= T.start.t
                      /\ T.start.t - shift.end.t < 1 * PerHour)

\* C6: the daily-hours check fails if and only if the duration of the candidate
\* plus the durations of the listed shifts that start on the candidate's
\* calendar date exceeds 12 hours; exactly 12 hours passes, and shifts on other
\* dates do not count.
C6_DailyHoursIff ==
    Checked =>
        (Reported("MaxHours")
         <=> /\ Parses(shift)
             /\ LET sameDay == {T \in Listed(Emp) :
                                  /\ T.start.kind = "iso"
                                  /\ T.start.t \div PerDay = shift.start.t \div PerDay}
                    ids == SetToSeq({T.id : T \in sameDay})
                    hours == [i \in DOMAIN ids |->
                                 LET T == CHOOSE X \in sameDay : X.id = ids[i]
                                 IN IF Parses(T) THEN Duration(T) ELSE 0]
                IN Duration(shift) + SumSeq(hours) > 12 * PerHour)

\* the constraints, of the four, that the employee and the candidate fail
Failing ==
    (IF check_no_overlap_constraint(Emp, shift, current_assignments, all_events).ok
     THEN {} ELSE {"Overlaps"})
    \cup (IF check_break_time_constraint(Emp, shift, current_assignments, all_events).ok
          THEN {} ELSE {"Break"})
    \cup (IF check_max_hours_per_day_constraint(Emp, shift, current_assignments, all_events).ok
          THEN {} ELSE {"MaxHours"})
    \cup (IF check_availability_constraint(Emp, shift, availabilities).ok
          THEN {} ELSE {"Availability"})

\* the constraint an error message belongs to
ConstraintOf(error) == IF error \in AvailabilityErrors THEN "Availability" ELSE error

\* C17: check_all_hard_constraints evaluates all four constraints whatever
\* the earlier ones found: the returned list holds one violation for each
\* constraint the pair fails and nothing else, and ok is true exactly when
\* the list is empty.
C17_AllViolationsCollected ==
    Checked =>
        /\ {ConstraintOf(ret.errors[i]) : i \in DOMAIN ret.errors} = Failing
        /\ Len(ret.errors) = Cardinality(Failing)
        /\ ret.ok <=> ret.errors = <<>>

\* overlap, daily hours and availability fail together and all three are listed
C17_Witness ==
    /\ Checked
    /\ ~ret.ok
    /\ Len(ret.errors) = 3
    /\ Reported("Overlaps") /\ Reported("MaxHours") /\ Reported("NotWithin")

-----------------------------------------------------------------------------
(* Properties of scoring and ranking (checked under SpecRank) *)

Suggested == pc = "suggest_assignments"

\* the employees that pass check_all_hard_constraints for the candidate shift
Eligible ==
    {e \in EmployeeIds :
        check_all_hard_constraints(e, shift, current_assignments,
                                   all_events, availabilities).ok}

TotalScore(e) ==
    calculate_assignment_score(e, shift, current_assignments, all_events,
                               availabilities, employees)

\* total already-assigned hours of e, an end before the start counted as the
\* next day's
PriorHours(e) ==
    LET mine == SelectSeq(all_events,
                          LAMBDA T : T.id \in Range(DictGet(current_assignments, e)))
    IN SumSeq([i \in DOMAIN mine |-> Duration(mine[i])])

\* position of employee e in the employees input list
Pos(e) == CHOOSE i \in DOMAIN employees : employees[i].id = e

Returned == {ret[i].employee_id : i \in DOMAIN ret}

\* C7: three employees of one assignment state with strictly increasing
\* already-assigned hours get strictly decreasing fairness scores.
C7_FairnessStrictlyDecreasing ==
    pc = "calculate_fairness_score" =>
        \A e1, e2, e3 \in DOMAIN current_assignments :
            (PriorHours(e1) < PriorHours(e2) /\ PriorHours(e2) < PriorHours(e3))
                => (QLess(ret[e2], ret[e1]) /\ QLess(ret[e3], ret[e2]))

\* C8: auto_assign_shift asked for n slots with k eligible employees returns
\* exactly min(n, k) distinct eligible ids, and exactly one error, naming
\* n - k unfilled slots, iff k < n.
C8_AutoAssignFills ==
    [][pc' = "auto_assign_shift" =>
        LET n == IF arg' = None THEN shift.capacity ELSE arg'
            k == Cardinality(Eligible)
            m == IF n < k THEN n ELSE k
        IN /\ Len(ret'.assigned) = m
           /\ Cardinality(Range(ret'.assigned)) = m
           /\ Range(ret'.assigned) \subseteq Eligible
           /\ (k < n) => (/\ Len(ret'.errors) = 1
                          /\ ret'.errors[1].slots_unfilled = n - k)
           /\ (k >= n) => ret'.errors = <<>>]_vars

\* n = 3 and k = 2: two ids and one error naming one unfilled slot
C8_Witness ==
    /\ pc = "auto_assign_shift"
    /\ arg = 3
    /\ Len(ret.assigned) = 2
    /\ Len(ret.errors) = 1
    /\ ret.errors[1].slots_unfilled = 1

\* C9: suggest_assignments returns at most count candidates, each passing
\* all hard constraints and carrying its total score, in order of
\* non-increasing score, and no eligible employee left out scores strictly
\* higher than a returned one.
C9_SuggestTopCount ==
    Suggested =>
        /\ Len(ret) <= arg
        /\ \A i \in DOMAIN ret :
              /\ ret[i].employee_id \in Eligible
              /\ QEq(ret[i].score, TotalScore(ret[i].employee_id))
        /\ \A i, j \in DOMAIN ret : i < j => ~QLess(ret[i].score, ret[j].score)
        /\ \A e \in Eligible \ Returned :
              \A i \in DOMAIN ret : ~QLess(ret[i].score, TotalScore(e))

\* one of three is returned, a lower-scoring eligible one is left out and a
\* violator is discarded
C9_Witness ==
    /\ Suggested
    /\ arg = 1
    /\ Len(ret) = 1
    /\ \E e \in Eligible \ Returned : QLess(TotalScore(e), ret[1].score)
    /\ EmployeeIds \ Eligible # {}

Ranking ==
    suggest_assignments(shift, employees, all_events, availabilities,
                        current_assignments, Len(employees))

\* C23: auto_assign_shift ranks the candidates once, on the assignment state
\* as passed in, and its assigned ids are the first min(n, k) entries of
\* that ranking, in ranking order, k being the length of the ranking: the
\* picks made do not change the order of the later ones, and the call stops
\* when n slots are filled or the ranking is used up.
C23_AssignedIsRankingPrefix ==
    [][pc' = "auto_assign_shift" =>
        LET n == IF arg' = None THEN shift.capacity ELSE arg'
            k == Len(Ranking)
            m == IF n < k THEN n ELSE k
        IN ret'.assigned = [i \in 1..m |-> Ranking[i].employee_id]]_vars

\* two of three eligible employees were assigned and the third, still
\* eligible, was left out
C23_Witness ==
    /\ pc = "auto_assign_shift"
    /\ arg = 2
    /\ Len(ret.assigned) = 2
    /\ \E e \in EmployeeIds \ Range(ret.assigned) :
          check_all_hard_constraints(e, shift, current_assignments,
                                     all_events, availabilities).ok

-----------------------------------------------------------------------------
(* Properties of the store (checked under SpecStore) *)

\* the number of assigned (confirmed) employees of the i-th stored event
AssignedCount(i) ==
    IF supabase
    THEN Cardinality(RowsWithStatus(event_assignments, events_table[i].id, "confirmed"))
    ELSE Len(events_table[i].assigned)

\* C1: after any sequence of store operations and autofill calls, no event
\* has more assigned (confirmed) employees than its current capacity.
C1_AssignedWithinCapacity ==
    \A i \in DOMAIN events_table : AssignedCount(i) <= events_table[i].capacity
-----------------------------------------------------------------------------
(* Properties of generate_full_schedule (checked under SpecSchedule) *)

Scheduled == pc = "generate_full_schedule"

\* the shift of all_events with the given id
ShiftOf(id) == all_events[CHOOSE i \in DOMAIN all_events : all_events[i].id = id]

\* the assignment state the n-th run starts from: every earlier run's
\* picks, in the order of the runs
RECURSIVE Committed(_)
Committed(n) ==
    IF n = 1 THEN <<>>
    ELSE LET before == Committed(n - 1)
             run == ret.runs[n - 1]
         IN [e \in DOMAIN before \cup Range(run.assigned) |->
                IF e \in Range(run.assigned)
                THEN Append(DictGet(before, e), run.shift_id)
                ELSE before[e]]

\* C13: generate_full_schedule runs auto_assign_shift once per shift, in
\* order of descending capacity and, for equal capacity, descending start
\* time, and each run returns what auto_assign_shift returns on the
\* assignments committed by all earlier runs.
C13_ScheduleOrder ==
    Scheduled =>
        /\ Len(ret.runs) = Len(all_events)
        /\ {ret.runs[i].shift_id : i \in DOMAIN ret.runs}
              = {all_events[i].id : i \in DOMAIN all_events}
        /\ \A i, j \in DOMAIN ret.runs :
              i < j =>
                 LET a == ShiftOf(ret.runs[i].shift_id)
                     b == ShiftOf(ret.runs[j].shift_id)
                 IN \/ a.capacity > b.capacity
                    \/ /\ a.capacity = b.capacity
                       /\ (a.start.kind = "iso" /\ b.start.kind = "iso")
                             => a.start.t >= b.start.t
        /\ \A n \in DOMAIN ret.runs :
              LET s == ShiftOf(ret.runs[n].shift_id)
              IN ret.runs[n].assigned =
                    auto_assign_shift(s, employees, all_events, availabilities,
                                      Committed(n), s.capacity).assigned

\* two shifts of equal capacity, the later one run first and given the
\* employee the earlier, overlapping one then has to do without
C13_Witness ==
    /\ Scheduled
    /\ Len(ret.runs) >= 2
    /\ LET a == ShiftOf(ret.runs[1].shift_id)
           b == ShiftOf(ret.runs[2].shift_id)
       IN /\ a.id > b.id
          /\ a.capacity = b.capacity
          /\ a.start.kind = "iso" /\ b.start.kind = "iso"
          /\ a.start.t > b.start.t
          /\ Overlap(a, b)
          /\ ret.runs[1].assigned # <<>>
          /\ ret.runs[2].assigned # <<>>
          /\ Range(ret.runs[1].assigned) \cap Range(ret.runs[2].assigned) = {}

\* both stamps of the shift parse and its start is before its end
Stamped(S) ==
    /\ S.start.kind # "bad" /\ S.end.kind # "bad"
    /\ S.start.t < S.end.t

\* the shifts the returned schedule gives to employee e
Mine(e) ==
    {all_events[i] : i \in {j \in DOMAIN all_events :
        /\ all_events[j].id \in DOMAIN ret.assignments
        /\ e \in Range(ret.assignments[all_events[j].id])}}

\* the hours of the employee's shifts that start on calendar date d
HoursOn(e, d) ==
    LET ids == SetToSeq({T.id : T \in {X \in Mine(e) : X.start.t \div PerDay = d}})
    IN SumSeq([i \in DOMAIN ids |-> ShiftOf(ids[i]).end.t - ShiftOf(ids[i]).start.t])

\* C24: in the schedule generate_full_schedule returns for shifts whose
\* stamps parse, with start before end, the shifts of every employee do
\* not overlap one another, lie at least 1 hour apart, add up to at most
\* 12 hours on every calendar date and lie each inside one availability
\* window of the employee; no shift lists an employee twice or more
\* employees than its capacity.
C24_ScheduleFeasible ==
    (Scheduled /\ \A i \in DOMAIN all_events : Stamped(all_events[i])) =>
        /\ \A e \in {employees[i].id : i \in DOMAIN employees} :
              /\ \A S, T \in Mine(e) :
                    S.id # T.id =>
                       \/ S.end.t + min_break_hours <= T.start.t
                       \/ T.end.t + min_break_hours <= S.start.t
              /\ \A S \in Mine(e) :
                    /\ HoursOn(e, S.start.t \div PerDay) <= max_hours_per_day
                    /\ \E W \in Windows(e) :
                          /\ Parses(W)
                          /\ W.start.t <= S.start.t
                          /\ S.end.t <= W.end.t
        /\ \A id \in DOMAIN ret.assignments :
              /\ Cardinality(Range(ret.assignments[id])) = Len(ret.assignments[id])
              /\ Len(ret.assignments[id]) <= ShiftOf(id).capacity

\* one employee holds two shifts, 09:00-14:00 and 15:00-22:00, and the
\* other employee, free in the morning only, shares the first
C24_Witness ==
    /\ Scheduled
    /\ \A i \in DOMAIN all_events : Stamped(all_events[i])
    /\ \E e \in {employees[i].id : i \in DOMAIN employees} :
          /\ Cardinality(Mine(e)) = 2
          /\ \E S \in Mine(e) : Len(ret.assignments[S.id]) = 2

Raised == pc = "TypeError"

\* C14: generate_full_schedule (and with it auto_assign_shift and
\* suggest_assignments, which it calls) never raises, whatever the records:
\* every call returns.
C14_NeverRaises == ~Raised
-----------------------------------------------------------------------------
(* Properties of the swap validator and request_swap (checked under SpecSwap) *)

Requested == pc = "request_swap"

\* the request named both employees and both shifts
Complete ==
    /\ arg.target_employee_id # None
    /\ arg.initiator_shift_id # None
    /\ arg.target_shift_id # None

\* the hard-constraint result for the employee taking the shift new_shift_id
\* while giving up own_shift_id, everything else as it is
Half(employee_id, own_shift_id, new_shift_id) ==
    check_all_hard_constraints(
        employee_id,
        ShiftOf(new_shift_id),
        [e \in DOMAIN current_assignments |->
            IF e = employee_id
            THEN SelectSeq(current_assignments[e], LAMBDA id : id # own_shift_id)
            ELSE current_assignments[e]],
        all_events, availabilities)

InitiatorHalf == Half(Emp, arg.initiator_shift_id, arg.target_shift_id)
TargetHalf == Half(arg.target_employee_id, arg.target_shift_id, arg.initiator_shift_id)

\* the reported issues about availability that are tagged with the employee
AvailabilityIssues(employee_id) ==
    {i \in DOMAIN ret.issues :
        /\ ret.issues[i].employee = employee_id
        /\ ret.issues[i].issue \in AvailabilityErrors}

\* C15: a swap request is accepted by validate_swap exactly when both
\* hypothetical placements pass the hard constraints (each employee taking
\* the other's shift with the own shift given up); when both placements
\* violate availability the answer carries two availability issues, one
\* tagged with each employee; and a row is written to shift_swaps only for
\* a request validate_swap accepted.
C15_SwapValidated ==
    /\ (Requested /\ Complete) =>
          /\ (ret.status \in {201, 500}) <=> (InitiatorHalf.ok /\ TargetHalf.ok)
          /\ ( /\ \E k \in DOMAIN InitiatorHalf.errors :
                     InitiatorHalf.errors[k] \in AvailabilityErrors
               /\ \E k \in DOMAIN TargetHalf.errors :
                     TargetHalf.errors[k] \in AvailabilityErrors )
             => /\ ret.status = 400
                /\ Cardinality(AvailabilityIssues(Emp)) = 1
                /\ Cardinality(AvailabilityIssues(arg.target_employee_id)) = 1
    /\ (shift_swaps # <<>>) =>
          /\ Requested /\ Complete
          /\ ret.status = 201
          /\ InitiatorHalf.ok /\ TargetHalf.ok
          /\ Len(shift_swaps) = 1
          /\ shift_swaps[1].status = "pending"

\* both halves fail on availability alone: two issues, one per employee
C15_Witness ==
    /\ Requested /\ Complete
    /\ ret.status = 400
    /\ Len(ret.issues) = 2
    /\ ret.issues[1].employee = Emp
    /\ ret.issues[2].employee = arg.target_employee_id
    /\ ret.issues[1].issue = "NotWithin"
    /\ ret.issues[2].issue = "NotWithin"

\* an accepted swap that gives up the initiator's own shift, which the
\* shift taken over would otherwise overlap
C15_WitnessAccepted ==
    /\ Requested /\ Complete
    /\ ret.status = 201
    /\ Len(shift_swaps) = 1
    /\ Overlap(ShiftOf(arg.initiator_shift_id), ShiftOf(arg.target_shift_id))
-----------------------------------------------------------------------------
(* Properties of the overlap tests (checked under SpecValidate) *)

Compared == pc = "shifts_overlap"

\* one of the two events ends exactly when the other starts
Touching(a, b) ==
    /\ Parses(a) /\ Parses(b)
    /\ a.end.t = b.start.t \/ b.end.t = a.start.t

\* the detector found the pair overlapping
Found(outcome) == outcome.raised = "" /\ outcome.conflicts # <<>>

\* C16: both overlap tests give the same answer for (A, B) and for (B, A),
\* shifts_overlap and ConflictDetector._check_overlapping_shifts alike, and
\* neither reports two shifts of which one ends exactly when the other
\* starts.
C16_OverlapSymmetric ==
    Compared =>
        /\ ret.ab = ret.ba
        /\ ret.detector_ab.raised = ret.detector_ba.raised
        /\ Found(ret.detector_ab) <=> Found(ret.detector_ba)
        /\ (/\ Touching(all_events[arg[1]], all_events[arg[2]])
            /\ all_events[arg[1]].start.t < all_events[arg[1]].end.t
            /\ all_events[arg[2]].start.t < all_events[arg[2]].end.t)
              => /\ ~ret.ab
                 /\ ~Found(ret.detector_ab)

\* the pair overlaps for both tests in both orders, the later shift first
C16_Witness ==
    /\ Compared
    /\ all_events[arg[1]].start.t > all_events[arg[2]].start.t
    /\ all_events[arg[1]].end.t # all_events[arg[2]].end.t
    /\ ret.ab /\ ret.ba
    /\ Found(ret.detector_ab) /\ Found(ret.detector_ba)

\* a touching pair that neither test reports
C16_WitnessTouching ==
    /\ Compared
    /\ Touching(all_events[arg[1]], all_events[arg[2]])
    /\ all_events[arg[1]].end.t = all_events[arg[2]].start.t
    /\ ~ret.ab /\ ~ret.ba
    /\ ~Found(ret.detector_ab) /\ ~Found(ret.detector_ba)
-----------------------------------------------------------------------------
(* Properties of the scores (checked under SpecScore) *)

Scored == pc = "calculate_assignment_score"

\* 0 <= x <= 1
InUnitInterval(x) == ~QLess(x, Q(0, 1)) /\ ~QLess(Q(1, 1), x)

\* C18: each of the three scores lies in [0, 1], and the total score
\* 0.45 fairness + 0.35 availability + 0.20 reliability lies in [0, 1] too.
C18_ScoresInUnitInterval ==
    Scored =>
        /\ InUnitInterval(ret.fairness)
        /\ InUnitInterval(ret.availability)
        /\ InUnitInterval(ret.reliability)
        /\ QEq(ret.total_score,
               QAdd(QAdd(QMul(Q(45, 100), ret.fairness), QMul(Q(35, 100), ret.availability)),
                    QMul(Q(20, 100), ret.reliability)))
        /\ InUnitInterval(ret.total_score)
-----------------------------------------------------------------------------
(* Properties of the manager-facing checks (checked under SpecValidate) *)

\* the call named by pc raised
RaisedIn(op) == pc = op /\ ret.raised # ""

\* the call named by pc returned
ReturnedFrom(op) == pc = op /\ ret.raised = ""

\* C19: a shift whose end lies before its start counts as ending one calendar
\* day later, on every calendar date: validate_assignment returns normally
\* (also when the end is on the last day of a month), and the optimizer's
\* get_shift_duration_hours returns the duration of the rolled shift, never
\* a negative one.
C19_EndBeforeStartRolled ==
    /\ ~RaisedIn("validate_assignment")
    /\ pc = "get_shift_duration_hours" =>
          /\ ret.duration >= 0
          /\ Parses(shift) => ret.duration = Duration(shift)

\* the end of a shift as the validator is to take it
RolledEnd(S) == IF S.end.t < S.start.t THEN S.end.t + PerDay ELSE S.end.t

\* the other events the employee is assigned to, as far as their times parse
Held ==
    {all_events[i] : i \in {j \in DOMAIN all_events :
        /\ all_events[j].id # shift.id
        /\ Emp \in Range(all_events[j].assigned)
        /\ Parses(all_events[j])}}

\* the conflict is one of the kinds that block an assignment
Blocking(c) == c.severity = "error"

\* C20: on the manager-facing path validate_assignment returns
\* is_valid = false exactly when the event overlaps another shift of the
\* employee (reported with severity "error") or its times do not parse;
\* findings about the break and the daily hours carry severity "warning"
\* and never make the assignment invalid, in the validator and in the
\* conflict detector alike; and the assign and confirm routes stop an
\* assignment only for unavailability or an error-severity conflict.
C20_OnlyErrorsInvalidate ==
    /\ pc = "validate_assignment" =>
          /\ ret.raised = ""
          /\ ~ret.is_valid <=>
                \/ ~Parses(shift)
                \/ \E T \in Held : shift.start.t < RolledEnd(T) /\ RolledEnd(shift) > T.start.t
          /\ ~ret.is_valid <=> \E i \in DOMAIN ret.conflicts : Blocking(ret.conflicts[i])
          /\ \A i \in DOMAIN ret.conflicts :
                ret.conflicts[i].type \in {"BreakBefore", "BreakAfter", "DailyHours"}
                   => ret.conflicts[i].severity = "warning"
    /\ ReturnedFrom("detector_validate_assignment") =>
          /\ ~ret.is_valid <=> \E i \in DOMAIN ret.conflicts : Blocking(ret.conflicts[i])
          /\ \A i \in DOMAIN ret.conflicts :
                ret.conflicts[i].conflict_type \in {"insufficient_break",
                                                    "excessive_daily_hours"}
                   => ret.conflicts[i].severity = "warning"
    /\ pc = "check_assignment_validity" =>
          /\ ret.raised = ""
          /\ ~ret.is_valid <=>
                \/ ~is_employee_available(Emp, shift.start, shift.end, availabilities)
                \/ ~Parses(shift)
                \/ \E T \in Held : shift.start.t < RolledEnd(T) /\ RolledEnd(shift) > T.start.t
-----------------------------------------------------------------------------
(* Properties of the conflict detector's break check (checked under        *)
(* SpecValidate)                                                           *)

\* the times of the shift parse and its end is after its start
WellFormed(S) == Parses(S) /\ S.start.t < S.end.t

\* T is a shift of the employee next to the new one: no third shift of the
\* employee starts between the two
NextTo(T) ==
    \A K \in Held \ {T} :
       \/ K.start.t < shift.start.t /\ K.start.t < T.start.t
       \/ K.start.t > shift.start.t /\ K.start.t > T.start.t

\* the hours between the two shifts, from the end of the earlier one
Gap(S, T) ==
    IF S.start.t <= T.start.t THEN T.start.t - S.end.t ELSE S.start.t - T.end.t

\* the detector reports an insufficient break between the two shifts
BreakReported(S, T) ==
    \E i \in DOMAIN ret.conflicts :
       /\ ret.conflicts[i].conflict_type = "insufficient_break"
       /\ Range(ret.conflicts[i].event_ids) = {S.id, T.id}

\* C21: for the new shift and a shift of the employee next to it, the two
\* not overlapping, the conflict detector reports an insufficient break
\* exactly when the gap g between them satisfies 0 <= g < min_break_hours
\* (8 h by default), a gap of exactly 0 included.
C21_BreakConflictIff ==
    ReturnedFrom("detector_validate_assignment") =>
        \A T \in Held :
           (/\ WellFormed(shift) /\ WellFormed(T)
            /\ NextTo(T)
            /\ Gap(shift, T) >= 0)
              => (BreakReported(shift, T) <=> Gap(shift, T) < detector_min_break_hours)
-----------------------------------------------------------------------------
(* Properties of the assignment state as the only source of assignments    *)
(* (checked under Spec)                                                    *)

\* the listed shifts that start on the calendar date of the candidate
SameDay(e) ==
    {T \in Listed(e) : /\ T.start.kind = "iso"
                       /\ shift.start.kind = "iso"
                       /\ T.start.t \div PerDay = shift.start.t \div PerDay}

\* the hours of the listed shifts of the candidate's date
SameDayHours(e) ==
    LET ids == SetToSeq({T.id : T \in SameDay(e)})
    IN SumSeq([i \in DOMAIN ids |->
                  LET T == CHOOSE X \in SameDay(e) : X.id = ids[i]
                  IN IF Parses(T) THEN Duration(T) ELSE 0])

\* a listed shift less than the minimum break away from the candidate
TooClose(T) ==
    /\ Parses(shift) /\ Parses(T)
    /\ \/ T.end.t <= shift.start.t /\ shift.start.t - T.end.t < min_break_hours
       \/ shift.end.t <= T.start.t /\ T.start.t - shift.end.t < min_break_hours

\* the events of all_events that are not listed for the employee although
\* their own assigned list names them
Unlisted(e) ==
    {all_events[i] : i \in {j \in DOMAIN all_events :
        /\ all_events[j] \notin Listed(e)
        /\ e \in Range(all_events[j].assigned)}}

\* C22 as stated: an overlap, break or daily-hours violation is always due
\* to a shift listed for the employee in the assignment state, never to a
\* shift that only names the employee in its own assigned list; with nothing
\* listed for the employee the three checks pass.
C22_OnlyListedShiftsViolate ==
    Checked =>
        /\ Reported("Overlaps") => \E T \in Listed(Emp) : Overlap(shift, T)
        /\ Reported("Break") => \E T \in Listed(Emp) : TooClose(T)
        /\ Reported("MaxHours") => SameDay(Emp) # {}
        /\ Listed(Emp) = {} =>
              ~Reported("Overlaps") /\ ~Reported("Break") /\ ~Reported("MaxHours")

\* C22 as the code has it: an overlap or break violation is always due to a
\* listed shift, and a daily-hours violation means that the candidate and
\* the listed shifts of its date together exceed 12 hours; with nothing
\* listed for the employee the overlap and break checks pass, and the
\* daily-hours check fails exactly when the candidate alone is longer than
\* 12 hours.
C22_ChecksReadOnlyListedShifts ==
    Checked =>
        /\ Reported("Overlaps") => \E T \in Listed(Emp) : Overlap(shift, T)
        /\ Reported("Break") => \E T \in Listed(Emp) : TooClose(T)
        /\ Reported("MaxHours") =>
              /\ Parses(shift)
              /\ Duration(shift) + SameDayHours(Emp) > max_hours_per_day
        /\ Listed(Emp) = {} =>
              /\ ~Reported("Overlaps") /\ ~Reported("Break")
              /\ Reported("MaxHours") <=>
                    (Parses(shift) /\ shift.end.t - shift.start.t > max_hours_per_day)

\* nothing is listed for the employee, an unlisted shift that names them
\* overlaps the candidate, and none of the three checks reports anything
C22_Witness ==
    /\ Checked
    /\ Listed(Emp) = {}
    /\ \E T \in Unlisted(Emp) : T.id # shift.id /\ Overlap(shift, T)
    /\ ~Reported("Overlaps") /\ ~Reported("Break") /\ ~Reported("MaxHours")

-----------------------------------------------------------------------------
(* Properties of interleaved assign_user_to_event calls (checked under     *)
(* SpecInterleave)                                                         *)

\* C25: however the store reads and writes of the two calls interleave, the
\* event never has more confirmed assignments than its capacity.
C25_InterleavedWithinCapacity ==
    Cardinality(RowsWithStatus(event_assignments, TheEvent, "confirmed"))
        <= events_table[1].capacity
-----------------------------------------------------------------------------
(* Properties of the assigned and pending lists (checked under SpecLists)  *)

\* the event of the last call as the store returns it
CalledEvent ==
    get_event_by_id(supabase, events_table, event_assignments, arg.event_id)

\* the last call was one that takes a user off an event, and returned True
Removed ==
    /\ pc \in {"unassign_user_from_event", "unsubscribe_user_from_event"}
    /\ ret.ok

\* C26: after unassign_user_from_event (models.py) or
\* unsubscribe_user_from_event (models_simple.py) returned True, the user
\* is neither in the assigned nor in the pending list of the event, with
\* and without Supabase.
C26_UnassignRemoves ==
    Removed =>
        /\ arg.user_id \notin Range(CalledEvent.assigned)
        /\ arg.user_id \notin Range(CalledEvent.pending)

\* no user occurs twice in the list
NoDuplicates(list) == Cardinality(Range(list)) = Len(list)

\* the assigned and pending lists of the stored event hold every user at
\* most once, and no user is on both
ListsClean(event) ==
    /\ NoDuplicates(event.assigned)
    /\ NoDuplicates(event.pending)
    /\ Range(event.assigned) \cap Range(event.pending) = {}

\* C27: on the in-memory store, after every subscribe, assign, confirm and
\* unsubscribe call no user is twice in the assigned or in the pending list
\* of an event or in both lists at once, and assign_user_to_event for a
\* user who is assigned already returns True and leaves the store as it was.
C27_ListsCleanInMemory ==
    [][~supabase =>
          /\ \A i \in DOMAIN events_table' : ListsClean(events_table'[i])
          /\ (/\ pc' = "assign_user_to_event"
              /\ arg'.user_id \in Range(StoredEvent(events_table, arg'.event_id).assigned))
                => /\ ret'.ok
                   /\ UNCHANGED <<events_table, event_assignments>>]_vars

\* assign_user_to_event returned True for the first of two assigned users
\* (an assignment appends, so the user was assigned before the call)
C27_Witness ==
    /\ ~supabase
    /\ pc = "assign_user_to_event"
    /\ ret.ok
    /\ Len(events_table[arg.event_id].assigned) >= 2
    /\ events_table[arg.event_id].assigned[1] = arg.user_id

-----------------------------------------------------------------------------
(* Fairness of the ranking (checked under SpecRank) *)

\* C28: in the list suggest_assignments returns for a candidate shift whose
\* start is not after its end, no candidate with strictly more
\* already-assigned hours stands ahead of a candidate with strictly fewer.
C28_FewerHoursRankedFirst ==
    (Suggested /\ Parses(shift) /\ shift.start.t <= shift.end.t) =>
        \A i, j \in DOMAIN ret :
            i < j => PriorHours(ret[i].employee_id) <= PriorHours(ret[j].employee_id)

-----------------------------------------------------------------------------
(* Properties of the checks on timestamps that do not parse (checked under *)
(* SpecMalformed)                                                          *)

\* C29: for a candidate shift whose start or end does not parse,
\* check_all_hard_constraints returns ok = false with an availability
\* violation, whatever the windows and the assignment state, and
\* suggest_assignments and auto_assign_shift select nobody; for a candidate
\* that parses, a listed shift whose start or end does not parse is skipped
\* by the overlap and break checks: a violation is reported exactly when a
\* listed shift that parses overlaps the candidate, or lies less than the
\* minimum break from it.
C29_MalformedFailsClosed ==
    /\ (Checked /\ ~Parses(shift)) =>
          ~ret.ok /\ \E e \in AvailabilityErrors : Reported(e)
    /\ (Suggested /\ ~Parses(shift)) => ret = <<>>
    /\ (pc = "auto_assign_shift" /\ ~Parses(shift)) => ret.assigned = <<>>
    /\ (Checked /\ Parses(shift)) =>
          /\ Reported("Overlaps") <=> \E T \in Listed(Emp) : Overlap(shift, T)
          /\ Reported("Break") <=> \E T \in Listed(Emp) : TooClose(T)

\* a candidate without a start was rejected for an employee who is available
\* all along and has nothing listed
C29_Witness ==
    /\ Checked
    /\ shift.start = Bad
    /\ Windows(Emp) # {}
    /\ Listed(Emp) = {}
    /\ ret.errors = <<"InvalidTime">>

-----------------------------------------------------------------------------
(* Properties of the fairness of a schedule (checked under SpecSchedule) *)

\* the total hours of the shifts the returned schedule gives to employee e
HoursOf(e) ==
    LET ids == SetToSeq({T.id : T \in Mine(e)})
    IN SumSeq([i \in DOMAIN ids |-> Duration(ShiftOf(ids[i]))])

\* C30: the fairness of a schedule counts every employee supplied to the
\* call, one without a shift with 0 hours: when at least one shift was
\* assigned, a fairness of 1.0 means that all the employees supplied ended
\* with the same total hours.
C30_FairnessCountsEveryEmployee ==
    (/\ Scheduled
     /\ \E id \in DOMAIN ret.assignments : ret.assignments[id] # <<>>
     /\ ret.stats.fairness_score = 100) =>
        \A e1, e2 \in {employees[i].id : i \in DOMAIN employees} :
            HoursOf(e1) = HoursOf(e2)

====
